---- MODULE Spec2Model ----
(***************************************************************************)
(* Model of bw_projects.core.ProjectsManager together with the helpers it  *)
(* drives: DatabaseHelper (the peewee/SQLite table of Project rows) and    *)
(* FileHelper (the directories under dir_base_data and dir_base_logs).     *)
(*                                                                         *)
(* A name or a path segment is a sequence of one-character strings, a path *)
(* is a sequence of segments.  The file system is the set of the paths     *)
(* that exist; it is followed down to the depth of a project's basic       *)
(* directories (base / project / basic directory), which is as deep as any *)
(* operation of the manager looks.                                         *)
(***************************************************************************)
EXTENDS Naturals, Sequences, FiniteSets, TLC

\* Attribute dictionaries are numbered 0..MaxAttr; 0 is the empty dictionary
\* that create_project substitutes for attributes=None.
MaxAttr == 1

AttributeValues == 0..MaxAttr

\* The raw project names the callers pass: the empty name, a name made of
\* punctuation only, two names that differ in case only, and another name.
RawNames == { <<>>, <<"!">>, <<"a">>, <<"A">>, <<"b">> }

None == <<>>

Some(x) == <<x>>

----------------------------------------------------------------------------
(* slugify, as ProjectsManager.get_clean_project_name applies it *)

ToLower(c) ==
    CASE c = "A" -> "a"
      [] c = "B" -> "b"
      [] OTHER -> c

SlugChars ==
    { "a", "b", "c", "d", "e", "f", "g", "h", "i", "j", "k", "l", "m",
      "n", "o", "p", "q", "r", "s", "t", "u", "v", "w", "x", "y", "z",
      "0", "1", "2", "3", "4", "5", "6", "7", "8", "9" }

\* Lower-case the text, turn every character outside [a-z0-9] into the
\* separator, collapse runs of separators and strip them from both ends.
slugify(text) ==
    LET t == [i \in 1..Len(text) |->
                 IF ToLower(text[i]) \in SlugChars THEN ToLower(text[i]) ELSE "-"]
        keep(i) == \/ t[i] # "-"
                   \/ /\ i > 1
                      /\ t[i - 1] # "-"
                      /\ \E j \in (i + 1)..Len(t) : t[j] # "-"
        kept == { i \in 1..Len(t) : keep(i) }
        \* the position in t of the k-th kept character
        nth[k \in 1..Cardinality(kept)] ==
            CHOOSE i \in kept : Cardinality({ j \in kept : j <= i }) = k
    IN  [k \in 1..Cardinality(kept) |-> t[nth[k]]]

get_clean_project_name(name) == slugify(name)

----------------------------------------------------------------------------
(* safe_filename, the name mapping of the legacy project manager *)

\* The raw names the name mappings are compared on: RawNames, and names
\* with white space, hyphens and punctuation at the ends and inside.
MapperNames ==
    RawNames \cup
    { <<" ", "a">>,
      <<"a", " ">>,
      <<"a", "!">>,
      <<"-">>,
      <<"a", " ", "a">>,
      <<"a", "-", "a">>,
      <<"a", " ", "-", " ", "a">> }

default == <<"d", "e", "f", "a", "u", "l", "t">>

\* hashlib.md5(string).hexdigest()[:8] on the names of MapperNames and on
\* the project name `default`.
md5_hexdigest_8(string) ==
    CASE string = <<>> -> <<"d", "4", "1", "d", "8", "c", "d", "9">>
      [] string = default -> <<"c", "2", "1", "f", "9", "6", "9", "b">>
      [] string = <<"!">> -> <<"9", "0", "3", "3", "e", "0", "e", "3">>
      [] string = <<"a">> -> <<"0", "c", "c", "1", "7", "5", "b", "9">>
      [] string = <<"A">> -> <<"7", "f", "c", "5", "6", "2", "7", "0">>
      [] string = <<"b">> -> <<"9", "2", "e", "b", "5", "f", "f", "e">>
      [] string = <<" ", "a">> -> <<"9", "5", "2", "9", "8", "8", "d", "a">>
      [] string = <<"a", " ">> -> <<"9", "9", "0", "2", "0", "c", "b", "2">>
      [] string = <<"a", "!">> -> <<"a", "4", "6", "d", "a", "3", "6", "4">>
      [] string = <<"-">> -> <<"3", "3", "6", "d", "5", "e", "b", "c">>
      [] string = <<"a", " ", "a">> -> <<"1", "b", "b", "d", "a", "9", "b", "9">>
      [] string = <<"a", "-", "a">> -> <<"2", "b", "4", "3", "0", "3", "b", "f">>
      [] string = <<"a", " ", "-", " ", "a">> -> <<"2", "6", "c", "2", "4", "c", "7", "e">>

WordChars ==
    SlugChars \cup { "_",
      "A", "B", "C", "D", "E", "F", "G", "H", "I", "J", "K", "L", "M",
      "N", "O", "P", "Q", "R", "S", "T", "U", "V", "W", "X", "Y", "Z" }

Whitespace == { " " }

\* The i-th of the positions in `kept`, in increasing order.
NthOf(kept, i) == CHOOSE p \in kept : Cardinality({ q \in kept : q <= p }) = i

Select(text, kept) == [i \in 1..Cardinality(kept) |-> text[NthOf(kept, i)]]

\* re_slugify.sub("", ...): drop what is not a word character, white space
\* or a hyphen.  NFKD normalization leaves the ASCII names of MapperNames
\* as they are.
re_slugify_sub(text) ==
    Select(text, { i \in 1..Len(text) :
                     text[i] \in WordChars \cup Whitespace \cup {"-"} })

\* str.strip(): drop the white space at both ends.
strip(text) ==
    Select(text, { i \in 1..Len(text) :
                     /\ \E j \in 1..i : text[j] \notin Whitespace
                     /\ \E j \in i..Len(text) : text[j] \notin Whitespace })

\* re.sub(r"[-\s]+", "-", ...): every run of hyphens and white space
\* becomes one hyphen.
collapse_hyphens(text) ==
    LET sep(i) == text[i] \in Whitespace \cup {"-"}
        t == [i \in 1..Len(text) |-> IF sep(i) THEN "-" ELSE text[i]]
    IN  Select(t, { i \in 1..Len(text) : ~sep(i) \/ i = 1 \/ ~sep(i - 1) })

\* Fault variant: the hash of the raw name is left out.
safe_filename_without_hash(string, add_hash) ==
    collapse_hyphens(strip(re_slugify_sub(string)))

safe_filename(string, add_hash) ==
    LET safe == collapse_hyphens(strip(re_slugify_sub(string)))
    IN  IF add_hash THEN safe \o <<".">> \o md5_hexdigest_8(string) ELSE safe

----------------------------------------------------------------------------
(* Configuration and the paths FileHelper derives *)

DIRS_BASIC ==
    << <<"b", "a", "c", "k", "u", "p", "s">>,
       <<"i", "n", "t", "e", "r", "m", "e", "d", "i", "a", "t", "e">>,
       <<"l", "c", "i">>,
       <<"p", "r", "o", "c", "e", "s", "s", "e", "d">> >>

database_name == <<"p", "r", "o", "j", "e", "c", "t", "s", ".", "d", "b">>

dir_base_data == << <<"d", "a", "t", "a">> >>

dir_base_logs == << <<"l", "o", "g", "s">> >>

\* pathlib: path / "" is path itself.
Join(path, segment) == IF segment = <<>> THEN path ELSE Append(path, segment)

database_path == Join(dir_base_data, database_name)

get_project_data_directory(name) == Join(dir_base_data, name)

get_project_logs_directory(name) == Join(dir_base_logs, name)

Range(s) == { s[i] : i \in 1..Len(s) }

basic_directories(project_dir) == [i \in 1..Len(DIRS_BASIC) |-> Join(project_dir, DIRS_BASIC[i])]

----------------------------------------------------------------------------
(* The file system: pathlib.Path.mkdir, shutil.rmtree, shutil.copytree *)

IsPrefix(p, q) == Len(p) <= Len(q) /\ SubSeq(q, 1, Len(p)) = p

Prefixes(p) == { SubSeq(p, 1, k) : k \in 1..Len(p) }

IsFile(p) == p[Len(p)] = database_name

\* The paths the model follows: the base directories, their entries, and
\* the basic directories and database copies inside those entries.
Tracked(p) ==
    \/ Len(p) <= 2
    \/ Len(p) = 3 /\ p[3] \in Range(DIRS_BASIC) \cup {database_name}

Ok(f) == [err |-> "none", fs |-> f]

Raise(e, f) == [err |-> e, fs |-> f]

\* Fault variant: an existing path is accepted whatever exist_ok says.
mkdir_accepts_existing(f, p, exist_ok) == Ok(f \cup Prefixes(p))

\* Path.mkdir(parents=True, exist_ok=exist_ok)
mkdir(f, p, exist_ok) ==
    IF p \in f
    THEN IF exist_ok /\ ~IsFile(p) THEN Ok(f) ELSE Raise("FileExistsError", f)
    ELSE Ok(f \cup Prefixes(p))

\* shutil.rmtree(p)
rmtree(f, p) ==
    IF p \notin f
    THEN Raise("FileNotFoundError", f)
    ELSE Ok({ q \in f : ~IsPrefix(p, q) })

\* shutil.copytree(src, dst, dirs_exist_ok=dirs_exist_ok): the entries of src
\* are listed before dst is made, then copied below dst.  Copying a tree
\* onto itself fails on its first file (SameFileError) once the directories
\* are walked.
copytree(f, src, dst, dirs_exist_ok) ==
    LET below == { q \in f : IsPrefix(src, q) /\ q # src }
        moved == { dst \o SubSeq(q, Len(src) + 1, Len(q)) : q \in below }
    IN  IF src \notin f THEN Raise("FileNotFoundError", f)
        ELSE IF dst \in f /\ ~dirs_exist_ok THEN Raise("FileExistsError", f)
        ELSE IF src = dst /\ \E q \in below : IsFile(q) THEN Raise("Error", f)
        ELSE Ok(f \cup Prefixes(dst) \cup { q \in moved : Tracked(q) })

----------------------------------------------------------------------------
(* FileHelper *)

RECURSIVE MkdirAll(_, _, _)
MkdirAll(f, paths, exist_ok) ==
    IF paths = <<>>
    THEN Ok(f)
    ELSE LET r == mkdir(f, Head(paths), exist_ok)
         IN  IF r.err # "none" THEN r ELSE MkdirAll(r.fs, Tail(paths), exist_ok)

\* The project's data directory, its basic directories, then its logs
\* directory, in this order; the first mkdir that raises ends the call.
create_project_directory(f, name, exist_ok) ==
    LET project_data_dir == get_project_data_directory(name)
        project_logs_dir == get_project_logs_directory(name)
    IN  MkdirAll(f,
                 <<project_data_dir>> \o basic_directories(project_data_dir)
                     \o <<project_logs_dir>>,
                 exist_ok)

\* Fault variant: the data directory is removed, the logs directory is forgotten.
delete_project_directory_data_only(f, name) ==
    rmtree(f, get_project_data_directory(name))

delete_project_directory(f, name) ==
    LET r == rmtree(f, get_project_data_directory(name))
    IN  IF r.err # "none" THEN r ELSE rmtree(r.fs, get_project_logs_directory(name))

copy_project_directory(f, name, new_name, dirs_exist_ok) ==
    LET r == copytree(f, get_project_data_directory(name),
                      get_project_data_directory(new_name), dirs_exist_ok)
    IN  IF r.err # "none"
        THEN r
        ELSE copytree(r.fs, get_project_logs_directory(name),
                      get_project_logs_directory(new_name), dirs_exist_ok)

----------------------------------------------------------------------------
(* DatabaseHelper: the Project table, in the order of its row ids *)

Project(name, dir_data, dir_logs, attributes) ==
    [name |-> name, dir_data |-> dir_data, dir_logs |-> dir_logs,
     attributes |-> attributes]

\* Fault variant: count() > 1 instead of count() > 0.
project_exists_off_by_one(reg, name) ==
    Cardinality({ i \in 1..Len(reg) : reg[i].name = name }) > 1

project_exists(reg, name) == \E i \in 1..Len(reg) : reg[i].name = name

\* Fault variant: Project.get() without its condition answers the first row.
get_project_first_row(reg, name) == reg[1]

get_project(reg, name) == reg[CHOOSE i \in 1..Len(reg) : reg[i].name = name]

\* Fault variant: the rows are answered newest first.
get_projects_newest_first(reg) == [i \in 1..Len(reg) |-> reg[Len(reg) + 1 - i]]

get_projects(reg) == reg

DbCreateProject(reg, name, data_path, logs_path, attributes) ==
    Append(reg, Project(name, data_path, logs_path, attributes))

DbDeleteProject(reg, name) == SelectSeq(reg, LAMBDA row : row.name # name)

\* Fault variant: the new row is created without the attributes of the old one.
DbCopyProject_no_attributes(reg, name, new_name, data_path, logs_path) ==
    Append(reg, Project(new_name, data_path, logs_path, 0))

DbCopyProject(reg, name, new_name, data_path, logs_path) ==
    Append(reg, Project(new_name, data_path, logs_path, get_project(reg, name).attributes))

\* SQLite refuses every write once the database file has been unlinked
\* under the open connection (OperationalError); reads still answer.
DbWritable(f) == database_path \in f

----------------------------------------------------------------------------
(* ProjectsManager *)

VARIABLES
    registry,        \* the rows of the Project table, oldest first
    fs,              \* the paths that exist on disk
    active_project,  \* ProjectsManager._active_project: None or Some(row)
    last,            \* the call that has just ended: its arguments, how it ended,
                     \* the callbacks it invoked, the value it returned, the
                     \* state before it; NoCall between calls
    mapped,          \* the raw names mapped to segments so far, in order
    files,           \* the files of the store's directory: path -> content
    store,           \* the live store instance: None or Some(its data mapping)
    store_last,      \* the store operation that has just ended, as `last`
    roots,           \* two root directories: root -> the paths that exist below it
    databases,       \* the Project table of the database file of each root
    SQLITE_DATABASE, \* model.SQLITE_DATABASE: None (deferred) or Some(root) whose
                     \* database file it was last initialised with
    managers,        \* the ProjectsManager constructed on each root: None or
                     \* Some(its _active_project)
    two_last,        \* the call that has just ended on one of the two managers
    projects,        \* the legacy ProjectManager: its table, its disk, its
                     \* _project_name and its base logs directory
    projects_last    \* the legacy call that has just ended, as `last`

\* The two managers of one process, and the legacy manager.
beyond == <<roots, databases, SQLITE_DATABASE, managers, two_last,
            projects, projects_last>>

\* What the calls of ProjectsManager leave alone.
aside == <<mapped, files, store, store_last, beyond>>

vars == <<registry, fs, active_project, last, aside>>

State(reg, f, act) == [registry |-> reg, fs |-> f, active_project |-> act]

Result(e, reg, f, act) ==
    [err |-> e, registry |-> reg, fs |-> f, active_project |-> act,
     callbacks |-> <<>>, value |-> None]

\* One callback is registered in each of the manager's four callback lists;
\* an invocation is recorded with the arguments it receives and with
\* len(manager) as the callback would see it.
Callback(kind, reg, name, project) ==
    [kind |-> kind, name |-> name, attributes |-> project.attributes,
     dir_data |-> project.dir_data, count |-> Len(reg)]

\* Fault variant: the callback is invoked before those invoked so far.
Calling_before(r, callback) == [r EXCEPT !.callbacks = <<callback>> \o @]

Calling(r, callback) == [r EXCEPT !.callbacks = Append(@, callback)]

Returning(r, value) == [r EXCEPT !.value = Some(value)]

\* Fault variant: the active project is dropped before the lookup is made.
activate_project_clears_first(reg, f, act, name) ==
    LET project_name == get_clean_project_name(name)
    IN  IF ~project_exists(reg, project_name)
        THEN Result("DoesNotExist", reg, f, None)
        ELSE Calling(Result("none", reg, f, Some(get_project(reg, project_name))),
                     Callback("activate", reg, project_name, get_project(reg, project_name)))

\* ProjectsManager.activate_project: the lookup raises before the assignment.
activate_project(reg, f, act, name) ==
    LET project_name == get_clean_project_name(name)
    IN  IF ~project_exists(reg, project_name)
        THEN Result("DoesNotExist", reg, f, act)
        ELSE Calling(Result("none", reg, f, Some(get_project(reg, project_name))),
                     Callback("activate", reg, project_name, get_project(reg, project_name)))

\* Fault variant: the existence test is made on the name as the caller
\* passed it, not on the cleaned name.
create_project_tests_raw_name(reg, f, act, name, attributes, exist_ok, activate) ==
    LET project_name == get_clean_project_name(name)
        made         == create_project_directory(f, project_name, exist_ok)
        data_path    == get_project_data_directory(project_name)
        logs_path    == get_project_logs_directory(project_name)
        reg1         == DbCreateProject(reg, project_name, data_path, logs_path, attributes)
        Finish(reg2, f2) ==
            LET project == get_project(reg2, project_name)
                r       == IF activate
                           THEN activate_project(reg2, f2, act, project_name)
                           ELSE Result("none", reg2, f2, act)
            IN  IF r.err # "none" THEN r
                ELSE Returning(Calling(r, Callback("create", reg2, project_name, project)),
                               project)
    IN  IF ~project_exists(reg, name)
        THEN IF made.err # "none" THEN Result(made.err, reg, made.fs, act)
             ELSE IF ~DbWritable(made.fs) THEN Result("OperationalError", reg, made.fs, act)
             ELSE Finish(reg1, made.fs)
        ELSE IF ~exist_ok THEN Result("ProjectExistsError", reg, f, act)
             ELSE Finish(reg, f)

\* ProjectsManager.__contains__: the name goes to project_exists as the
\* caller wrote it.
contains(reg, name) == project_exists(reg, name)

\* Fault variant: the row is created first, the directories after it.
create_project_row_first(reg, f, act, name, attributes, exist_ok, activate) ==
    LET project_name == get_clean_project_name(name)
        made         == create_project_directory(f, project_name, exist_ok)
        data_path    == get_project_data_directory(project_name)
        logs_path    == get_project_logs_directory(project_name)
        reg1         == DbCreateProject(reg, project_name, data_path, logs_path, attributes)
        Finish(reg2, f2) ==
            LET project == get_project(reg2, project_name)
                r       == IF activate
                           THEN activate_project(reg2, f2, act, project_name)
                           ELSE Result("none", reg2, f2, act)
            IN  IF r.err # "none" THEN r
                ELSE Returning(Calling(r, Callback("create", reg2, project_name, project)),
                               project)
    IN  IF ~project_exists(reg, project_name)
        THEN IF ~DbWritable(f) THEN Result("OperationalError", reg, f, act)
             ELSE IF made.err # "none" THEN Result(made.err, reg1, made.fs, act)
             ELSE Finish(reg1, made.fs)
        ELSE IF ~exist_ok THEN Result("ProjectExistsError", reg, f, act)
             ELSE Finish(reg, f)

\* Fault variant: the created project is activated whatever the activate
\* argument says.
create_project_always_activates(reg, f, act, name, attributes, exist_ok, activate) ==
    LET project_name == get_clean_project_name(name)
        made         == create_project_directory(f, project_name, exist_ok)
        data_path    == get_project_data_directory(project_name)
        logs_path    == get_project_logs_directory(project_name)
        reg1         == DbCreateProject(reg, project_name, data_path, logs_path, attributes)
        Finish(reg2, f2) ==
            LET project == get_project(reg2, project_name)
                r       == activate_project(reg2, f2, act, project_name)
            IN  IF r.err # "none" THEN r
                ELSE Returning(Calling(r, Callback("create", reg2, project_name, project)),
                               project)
    IN  IF ~project_exists(reg, project_name)
        THEN IF made.err # "none" THEN Result(made.err, reg, made.fs, act)
             ELSE IF ~DbWritable(made.fs) THEN Result("OperationalError", reg, made.fs, act)
             ELSE Finish(reg1, made.fs)
        ELSE IF ~exist_ok THEN Result("ProjectExistsError", reg, f, act)
             ELSE Finish(reg, f)

\* Fault variant: on an existing project with exist_ok the given attributes
\* are written over the stored ones.
create_project_updates_existing(reg, f, act, name, attributes, exist_ok, activate) ==
    LET project_name == get_clean_project_name(name)
        made         == create_project_directory(f, project_name, exist_ok)
        data_path    == get_project_data_directory(project_name)
        logs_path    == get_project_logs_directory(project_name)
        reg1         == DbCreateProject(reg, project_name, data_path, logs_path, attributes)
        updated      == [i \in DOMAIN reg |->
                            IF reg[i].name = project_name
                            THEN [reg[i] EXCEPT !.attributes = attributes]
                            ELSE reg[i]]
        Finish(reg2, f2) ==
            LET project == get_project(reg2, project_name)
                r       == IF activate
                           THEN activate_project(reg2, f2, act, project_name)
                           ELSE Result("none", reg2, f2, act)
            IN  IF r.err # "none" THEN r
                ELSE Returning(Calling(r, Callback("create", reg2, project_name, project)),
                               project)
    IN  IF ~project_exists(reg, project_name)
        THEN IF made.err # "none" THEN Result(made.err, reg, made.fs, act)
             ELSE IF ~DbWritable(made.fs) THEN Result("OperationalError", reg, made.fs, act)
             ELSE Finish(reg1, made.fs)
        ELSE IF ~exist_ok THEN Result("ProjectExistsError", reg, f, act)
             ELSE Finish(updated, f)

\* ProjectsManager.create_project
create_project(reg, f, act, name, attributes, exist_ok, activate) ==
    LET project_name == get_clean_project_name(name)
        made         == create_project_directory(f, project_name, exist_ok)
        data_path    == get_project_data_directory(project_name)
        logs_path    == get_project_logs_directory(project_name)
        reg1         == DbCreateProject(reg, project_name, data_path, logs_path, attributes)
        \* lines 141-145: activate, run the create callbacks, return the project
        Finish(reg2, f2) ==
            LET project == get_project(reg2, project_name)
                r       == IF activate
                           THEN activate_project(reg2, f2, act, project_name)
                           ELSE Result("none", reg2, f2, act)
            IN  IF r.err # "none" THEN r
                ELSE Returning(Calling(r, Callback("create", reg2, project_name, project)),
                               project)
    IN  IF ~project_exists(reg, project_name)
        THEN IF made.err # "none" THEN Result(made.err, reg, made.fs, act)
             ELSE IF ~DbWritable(made.fs) THEN Result("OperationalError", reg, made.fs, act)
             ELSE Finish(reg1, made.fs)
        ELSE IF ~exist_ok THEN Result("ProjectExistsError", reg, f, act)
             ELSE Finish(reg, f)

\* Fault variant: the active project's name is compared with the name as the
\* caller passed it, not with the cleaned name.
delete_project_compares_raw_name(reg, f, act, name, not_exist_ok, delete_dir) ==
    LET project_name == get_clean_project_name(name)
        reg1         == DbDeleteProject(reg, project_name)
        removed      == IF delete_dir THEN delete_project_directory(f, project_name) ELSE Ok(f)
    IN  IF ~project_exists(reg, project_name)
        THEN IF ~not_exist_ok THEN Result("DoesNotExist", reg, f, act)
             ELSE Result("none", reg, f, act)
        ELSE IF ~DbWritable(f) THEN Result("OperationalError", reg, f, act)
        ELSE IF removed.err # "none" THEN Result(removed.err, reg1, removed.fs, act)
        ELSE IF act = None THEN Result("AttributeError", reg1, removed.fs, act)
        ELSE Calling(Result("none", reg1, removed.fs,
                            IF act[1].name = name THEN None ELSE act),
                     Callback("delete", reg1, project_name, get_project(reg, project_name)))

\* Fault variant: the directories are removed first, the row after them.
delete_project_directory_first(reg, f, act, name, not_exist_ok, delete_dir) ==
    LET project_name == get_clean_project_name(name)
        reg1         == DbDeleteProject(reg, project_name)
        removed      == IF delete_dir THEN delete_project_directory(f, project_name) ELSE Ok(f)
    IN  IF ~project_exists(reg, project_name)
        THEN IF ~not_exist_ok THEN Result("DoesNotExist", reg, f, act)
             ELSE Result("none", reg, f, act)
        ELSE IF removed.err # "none" THEN Result(removed.err, reg, removed.fs, act)
        ELSE IF ~DbWritable(removed.fs) THEN Result("OperationalError", reg, removed.fs, act)
        ELSE IF act = None THEN Result("AttributeError", reg1, removed.fs, act)
        ELSE Calling(Result("none", reg1, removed.fs,
                            IF act[1].name = project_name THEN None ELSE act),
                     Callback("delete", reg1, project_name, get_project(reg, project_name)))

\* Fault variant: a tolerated delete of a missing project still resets the
\* active project.
delete_project_missing_resets_active(reg, f, act, name, not_exist_ok, delete_dir) ==
    LET project_name == get_clean_project_name(name)
        reg1         == DbDeleteProject(reg, project_name)
        removed      == IF delete_dir THEN delete_project_directory(f, project_name) ELSE Ok(f)
    IN  IF ~project_exists(reg, project_name)
        THEN IF ~not_exist_ok THEN Result("DoesNotExist", reg, f, act)
             ELSE Result("none", reg, f, None)
        ELSE IF ~DbWritable(f) THEN Result("OperationalError", reg, f, act)
        ELSE IF removed.err # "none" THEN Result(removed.err, reg1, removed.fs, act)
        ELSE IF act = None THEN Result("AttributeError", reg1, removed.fs, act)
        ELSE Calling(Result("none", reg1, removed.fs,
                            IF act[1].name = project_name THEN None ELSE act),
                     Callback("delete", reg1, project_name, get_project(reg, project_name)))

\* ProjectsManager.delete_project: the row goes first, then the directories,
\* then the comparison with the active project's name, which raises
\* AttributeError when no project is active.
delete_project(reg, f, act, name, not_exist_ok, delete_dir) ==
    LET project_name == get_clean_project_name(name)
        reg1         == DbDeleteProject(reg, project_name)
        removed      == IF delete_dir THEN delete_project_directory(f, project_name) ELSE Ok(f)
    IN  IF ~project_exists(reg, project_name)
        THEN IF ~not_exist_ok THEN Result("DoesNotExist", reg, f, act)
             ELSE Result("none", reg, f, act)
        ELSE IF ~DbWritable(f) THEN Result("OperationalError", reg, f, act)
        ELSE IF removed.err # "none" THEN Result(removed.err, reg1, removed.fs, act)
        ELSE IF act = None THEN Result("AttributeError", reg1, removed.fs, act)
        ELSE Calling(Result("none", reg1, removed.fs,
                            IF act[1].name = project_name THEN None ELSE act),
                     Callback("delete", reg1, project_name, get_project(reg, project_name)))

\* Fault variant: the membership test is made on the name as the caller
\* passed it, not on the cleaned name.
copy_project_tests_raw_name(reg, f, act, new_name, dirs_exist_ok, switch) ==
    LET project_name == get_clean_project_name(new_name)
        copied       == copy_project_directory(f, act[1].name, project_name, dirs_exist_ok)
        data_path    == get_project_data_directory(project_name)
        logs_path    == get_project_logs_directory(project_name)
        reg1         == DbCopyProject(reg, act[1].name, project_name, data_path, logs_path)
    IN  IF project_exists(reg, new_name) THEN Result("ProjectExistsError", reg, f, act)
        ELSE IF act = None THEN Result("AttributeError", reg, f, act)
        ELSE IF copied.err # "none" THEN Result(copied.err, reg, copied.fs, act)
        ELSE IF ~project_exists(reg, act[1].name) THEN Result("DoesNotExist", reg, copied.fs, act)
        ELSE IF ~DbWritable(copied.fs) THEN Result("OperationalError", reg, copied.fs, act)
        ELSE LET project == get_project(reg1, project_name)
                 r       == IF switch
                            THEN activate_project(reg1, copied.fs, act, project_name)
                            ELSE Result("none", reg1, copied.fs, act)
             IN  IF r.err # "none" THEN r
                 ELSE Returning(Calling(r, Callback("copy", reg1, project_name, project)),
                                project)

\* ProjectsManager.copy_project: self.active_project.name is read while the
\* arguments of copy_project_directory are built (AttributeError when no
\* project is active), the trees are copied, then the row is copied.
copy_project(reg, f, act, new_name, dirs_exist_ok, switch) ==
    LET project_name == get_clean_project_name(new_name)
        copied       == copy_project_directory(f, act[1].name, project_name, dirs_exist_ok)
        data_path    == get_project_data_directory(project_name)
        logs_path    == get_project_logs_directory(project_name)
        reg1         == DbCopyProject(reg, act[1].name, project_name, data_path, logs_path)
    IN  IF project_exists(reg, project_name) THEN Result("ProjectExistsError", reg, f, act)
        ELSE IF act = None THEN Result("AttributeError", reg, f, act)
        ELSE IF copied.err # "none" THEN Result(copied.err, reg, copied.fs, act)
        ELSE IF ~project_exists(reg, act[1].name) THEN Result("DoesNotExist", reg, copied.fs, act)
        ELSE IF ~DbWritable(copied.fs) THEN Result("OperationalError", reg, copied.fs, act)
        ELSE LET project == get_project(reg1, project_name)
                 r       == IF switch
                            THEN activate_project(reg1, copied.fs, act, project_name)
                            ELSE Result("none", reg1, copied.fs, act)
             IN  IF r.err # "none" THEN r
                 ELSE Returning(Calling(r, Callback("copy", reg1, project_name, project)),
                                project)

----------------------------------------------------------------------------
(* The calls *)

Call(op, name, attributes, flag1, flag2, r) ==
    [op |-> op, name |-> name, attributes |-> attributes,
     flag1 |-> flag1, flag2 |-> flag2, err |-> r.err,
     callbacks |-> r.callbacks, value |-> r.value,
     before |-> State(registry, fs, active_project)]

Apply(r) ==
    /\ registry' = r.registry
    /\ fs' = r.fs
    /\ active_project' = r.active_project

\* No call has been made since the caller took the last result.
NoCall ==
    [op |-> "none", name |-> <<>>, attributes |-> 0,
     flag1 |-> FALSE, flag2 |-> FALSE, err |-> "none",
     callbacks |-> <<>>, value |-> None,
     before |-> State(<<>>, {}, None)]

\* The store's directory before any store was opened in it, and the idle
\* value of store_last.
NoFiles == [path \in {} |-> <<>>]

NoStoreCall ==
    [op |-> "none", class |-> "none", key |-> "none", value |-> "none",
     err |-> "none", before |-> [files |-> NoFiles, store |-> None]]

\* The two roots of a process that has constructed no manager yet: nothing
\* exists below them, and SQLITE_DATABASE = SqliteDatabase(None) is deferred.
Roots == {1, 2}

NoTwoCall == [op |-> "none", root |-> 0, name |-> <<>>, err |-> "none", seen |-> {}]

TwoIdle ==
    /\ roots = [i \in Roots |-> {}]
    /\ databases = [i \in Roots |-> <<>>]
    /\ SQLITE_DATABASE = None
    /\ managers = [i \in Roots |-> None]
    /\ two_last = NoTwoCall

\* ProjectManager(folder) and ProjectManager(): with a folder (or
\* BRIGHTWAY_DIR) the base logs directory is folder/"logs", inside the base
\* data directory; without one the two directories are apart.
folder_logs_dir == Join(dir_base_data, <<"l", "o", "g", "s">>)

ProjectManager(base_logs_dir) ==
    [dataset       |-> <<>>,
     fs            |-> {dir_base_data, base_logs_dir, database_path},
     project_name  |-> None,
     base_logs_dir |-> base_logs_dir]

\* The names the legacy manager is called with, and the positional `name`
\* argument with its default None.
LegacyNames == { <<>>, <<"a">>, default }

LegacyArguments == {None} \cup { Some(n) : n \in LegacyNames }

\* safe_filename(name) of each of these names.
segment == [n \in LegacyNames |-> safe_filename(n, TRUE)]

\* bool(x) is False for None and for the empty string.
Falsy(x) == x = None \/ x = Some(<<>>)

\* filesystem.create_dir: os.makedirs unless the path is a directory.
create_dir(f, dirpath) ==
    IF dirpath \in f /\ ~IsFile(dirpath) THEN Ok(f) ELSE mkdir(f, dirpath, FALSE)

RECURSIVE create_dirs(_, _)
create_dirs(f, paths) ==
    IF paths = <<>>
    THEN Ok(f)
    ELSE LET r == create_dir(f, Head(paths))
         IN  IF r.err # "none" THEN r ELSE create_dirs(r.fs, Tail(paths))

\* shutil.copytree(src, dst, ignore=...) between two project directories;
\* no write-lock file is modelled.
copytree_ignore(f, src, dst) ==
    LET below == { q \in f : IsPrefix(src, q) /\ q # src }
        moved == { dst \o SubSeq(q, Len(src) + 1, Len(q)) : q \in below }
    IN  IF src \notin f THEN Raise("FileNotFoundError", f)
        ELSE IF dst \in f THEN Raise("FileExistsError", f)
        ELSE Ok(f \cup Prefixes(dst) \cup moved)

ProjectDataset(name, attributes) == [name |-> name, attributes |-> attributes]

LegacyResult(e, p, value) == [err |-> e, state |-> p, value |-> value]

\* ProjectManager.__contains__
legacy_contains(p, name) == \E i \in DOMAIN p.dataset : p.dataset[i].name = name

\* ProjectManager.dir and ProjectManager.logs_dir: None stands for the
\* NoActiveProject they raise when `current` is None or empty.
dir(p) ==
    IF Falsy(p.project_name)
    THEN None
    ELSE Some(Join(dir_base_data, segment[p.project_name[1]]))

logs_dir(p) ==
    IF Falsy(p.project_name)
    THEN None
    ELSE Some(Join(p.base_logs_dir, segment[p.project_name[1]]))

\* ProjectManager.create_project(name, **kwargs): the row is looked up or
\* created under `name or self.current`; the directories are those of the
\* current project.  A row is committed as soon as it is created.
legacy_create_project(p, name, kwargs) ==
    LET n == IF Falsy(name) THEN p.project_name ELSE name
        p1 == IF n = None \/ legacy_contains(p, n[1])
              THEN p
              ELSE [p EXCEPT !.dataset = Append(@, ProjectDataset(n[1], kwargs))]
    IN  IF n = None THEN LegacyResult("IntegrityError", p, None)
        ELSE IF dir(p1) = None THEN LegacyResult("NoActiveProject", p1, None)
        ELSE LET r == create_dirs(p1.fs, <<dir(p1)[1]>> \o basic_directories(dir(p1)[1])
                                             \o <<logs_dir(p1)[1]>>)
             IN  LegacyResult(r.err, [p1 EXCEPT !.fs = r.fs], None)

\* Fault variant: the name is recorded but no project is created.
set_current_without_create(p, name, kwargs) ==
    LegacyResult("none", [p EXCEPT !.project_name = Some(name)], None)

\* ProjectManager.set_current(name, **kwargs)
set_current(p, name, kwargs) ==
    legacy_create_project([p EXCEPT !.project_name = Some(name)], Some(name), kwargs)

\* ProjectManager.copy_project(new_name, switch).  With `fault` the
\* operating system refuses to make the destination directory and copytree
\* raises OSError before anything is written.
legacy_copy_project(p, new_name, switch, fault) ==
    LET fp == Join(dir_base_data, segment[new_name])
    IN  IF legacy_contains(p, new_name) THEN LegacyResult("ValueError", p, None)
        ELSE IF fp \in p.fs THEN LegacyResult("ValueError", p, None)
        ELSE IF p.project_name = None THEN LegacyResult("NoActiveProject", p, None)
        ELSE IF ~legacy_contains(p, p.project_name[1]) THEN LegacyResult("DoesNotExist", p, None)
        ELSE
          LET project_data ==
                  p.dataset[CHOOSE i \in DOMAIN p.dataset :
                                p.dataset[i].name = p.project_name[1]].attributes
              p1 == [p EXCEPT !.dataset = Append(@, ProjectDataset(new_name, project_data))]
          IN  IF dir(p1) = None THEN LegacyResult("NoActiveProject", p1, None)
              ELSE IF fault THEN LegacyResult("OSError", p1, None)
              ELSE LET r == copytree_ignore(p1.fs, dir(p1)[1], fp)
                       r2 == create_dir(r.fs, Join(p1.base_logs_dir, segment[new_name]))
                       p2 == [p1 EXCEPT !.fs = r2.fs]
                   IN  IF r.err # "none" THEN LegacyResult(r.err, [p1 EXCEPT !.fs = r.fs], None)
                       ELSE IF r2.err # "none" THEN LegacyResult(r2.err, p2, None)
                       ELSE IF switch THEN set_current(p2, new_name, 0)
                       ELSE LegacyResult("none", p2, None)

\* Fault variant: the path is answered without the directory being made.
request_directory_without_create(p, name) ==
    IF dir(p) = None
    THEN LegacyResult("NoActiveProject", p, None)
    ELSE LegacyResult("none", p, Some(Join(dir(p)[1], name)))

\* ProjectManager.request_directory(name): the path, or False (here None
\* with no error) if it is not a directory afterwards.
request_directory(p, name) ==
    IF dir(p) = None
    THEN LegacyResult("NoActiveProject", p, None)
    ELSE LET fp == Join(dir(p)[1], name)
             r == create_dir(p.fs, fp)
         IN  IF r.err # "none" THEN LegacyResult(r.err, p, None)
             ELSE LegacyResult("none", [p EXCEPT !.fs = r.fs], Some(fp))

\* ProjectManager.delete_project(name, delete_dir): the row goes first; the
\* next current project is the first row that is left, made current with
\* set_current.  The value is `current` at the return.
legacy_delete_project(p, name, delete_dir) ==
    LET victim == IF Falsy(name) THEN p.project_name[1] ELSE name[1]
        dir_path == Join(dir_base_data, segment[victim])
        p1 == [p EXCEPT !.dataset = SelectSeq(@, LAMBDA row : row.name # victim)]
        r == rmtree(p1.fs, dir_path)
        p2 == IF delete_dir THEN [p1 EXCEPT !.fs = r.fs] ELSE p1
    IN  IF p.project_name = None THEN LegacyResult("NoActiveProject", p, None)
        ELSE IF ~legacy_contains(p, victim) THEN LegacyResult("ValueError", p, None)
        ELSE IF delete_dir /\ dir_path \notin p1.fs THEN LegacyResult("AssertionError", p1, None)
        ELSE IF name = None \/ name = p.project_name
        THEN IF p2.dataset = <<>>
             THEN LegacyResult("none", [p2 EXCEPT !.project_name = None], None)
             ELSE LET s == set_current(p2, p2.dataset[1].name, 0)
                  IN  LegacyResult(s.err, s.state,
                                   IF s.err = "none" THEN s.state.project_name ELSE None)
        ELSE LegacyResult("none", p2, p2.project_name)

\* ProjectManager.purge_deleted_directories: every directory directly below
\* the base data directory whose name no row maps to is removed; the value
\* is their number.
purge_deleted_directories(p) ==
    LET registered == { segment[p.dataset[i].name] : i \in DOMAIN p.dataset }
        bad_directories ==
            { q \in p.fs : /\ Len(q) = Len(dir_base_data) + 1
                           /\ IsPrefix(dir_base_data, q)
                           /\ ~IsFile(q)
                           /\ q[Len(q)] \notin registered }
    IN  LegacyResult("none",
                     [p EXCEPT !.fs = { q \in @ : \A b \in bad_directories : ~IsPrefix(b, q) }],
                     Some(Cardinality(bad_directories)))

\* Path.rename(target): a missing source raises, a path renamed onto
\* itself stays, an existing target refuses, otherwise the tree moves.
rename(f, src, dst) ==
    IF src \notin f THEN Raise("FileNotFoundError", f)
    ELSE IF src = dst THEN Ok(f)
    ELSE IF dst \in f THEN Raise("OSError", f)
    ELSE Ok({ q \in f : ~IsPrefix(src, q) }
            \cup Prefixes(dst)
            \cup { dst \o SubSeq(q, Len(src) + 1, Len(q)) : q \in { q \in f : IsPrefix(src, q) } })

\* Fault variant: the data tree is taken from its place before the target
\* is tested.
use_short_hash_moves_first(p) ==
    IF dir(p) = None
    THEN LegacyResult("NoActiveProject", p, None)
    ELSE LegacyResult("OSError", [p EXCEPT !.fs = { q \in @ : ~IsPrefix(dir(p)[1], q) }], None)

\* ProjectManager.use_short_hash: old_dir and self.dir are the same
\* property read twice, nothing between the two reads changes the segment.
use_short_hash(p) ==
    IF dir(p) = None
    THEN LegacyResult("NoActiveProject", p, None)
    ELSE LET old_dir == dir(p)[1]
             old_logs_dir == logs_dir(p)[1]
             r == rename(p.fs, old_dir, dir(p)[1])
             r2 == rename(r.fs, old_logs_dir, logs_dir(p)[1])
         IN  IF dir(p)[1] \in p.fs THEN LegacyResult("OSError", p, None)
             ELSE IF logs_dir(p)[1] \in p.fs THEN LegacyResult("OSError", p, None)
             ELSE IF r.err # "none" THEN LegacyResult(r.err, [p EXCEPT !.fs = r.fs], None)
             ELSE LegacyResult(r2.err, [p EXCEPT !.fs = r2.fs], None)

\* ProjectManager.use_full_hash: the same statements as use_short_hash.
use_full_hash(p) ==
    IF dir(p) = None
    THEN LegacyResult("NoActiveProject", p, None)
    ELSE LET old_dir == dir(p)[1]
             old_logs_dir == logs_dir(p)[1]
             r == rename(p.fs, old_dir, dir(p)[1])
             r2 == rename(r.fs, old_logs_dir, logs_dir(p)[1])
         IN  IF dir(p)[1] \in p.fs THEN LegacyResult("OSError", p, None)
             ELSE IF logs_dir(p)[1] \in p.fs THEN LegacyResult("OSError", p, None)
             ELSE IF r.err # "none" THEN LegacyResult(r.err, [p EXCEPT !.fs = r.fs], None)
             ELSE LegacyResult(r2.err, [p EXCEPT !.fs = r2.fs], None)

NoLegacyCall ==
    [op |-> "none", name |-> None, flag |-> FALSE, err |-> "none", value |-> None,
     before |-> ProjectManager(dir_base_logs)]

LegacyIdle ==
    /\ projects = ProjectManager(dir_base_logs)
    /\ projects_last = NoLegacyCall

BeyondIdle ==
    /\ TwoIdle
    /\ LegacyIdle

\* The manager as ProjectsManager(dir_base_data, dir_base_logs, ...) leaves
\* it: both base directories made, the database file created with its
\* empty table, no active project.
Init ==
    /\ registry = <<>>
    /\ fs = {dir_base_data, dir_base_logs, database_path}
    /\ active_project = None
    /\ last = NoCall
    /\ mapped = <<>>
    /\ files = NoFiles
    /\ store = None
    /\ store_last = NoStoreCall
    /\ BeyondIdle

ActivateProject ==
    \E name \in RawNames :
        LET r == activate_project(registry, fs, active_project, name)
        IN  /\ last = NoCall
            /\ Apply(r)
            /\ UNCHANGED aside
            /\ last' = Call("activate_project", name, 0, FALSE, FALSE, r)

\* flag1 is exist_ok, flag2 is activate.
CreateProject ==
    \E name \in RawNames, attributes \in AttributeValues, exist_ok, activate \in BOOLEAN :
        LET r == create_project(registry, fs, active_project,
                                name, attributes, exist_ok, activate)
        IN  /\ last = NoCall
            /\ Apply(r)
            /\ UNCHANGED aside
            /\ last' = Call("create_project", name, attributes, exist_ok, activate, r)

\* flag1 is not_exist_ok, flag2 is delete_dir.
DeleteProject ==
    \E name \in RawNames, not_exist_ok, delete_dir \in BOOLEAN :
        LET r == delete_project(registry, fs, active_project,
                                name, not_exist_ok, delete_dir)
        IN  /\ last = NoCall
            /\ Apply(r)
            /\ UNCHANGED aside
            /\ last' = Call("delete_project", name, 0, not_exist_ok, delete_dir, r)

\* flag1 is dirs_exist_ok, flag2 is switch.
CopyProject ==
    \E new_name \in RawNames, dirs_exist_ok, switch \in BOOLEAN :
        LET r == copy_project(registry, fs, active_project,
                              new_name, dirs_exist_ok, switch)
        IN  /\ last = NoCall
            /\ Apply(r)
            /\ UNCHANGED aside
            /\ last' = Call("copy_project", new_name, 0, dirs_exist_ok, switch, r)

\* The caller has taken the value or the exception of its call and goes on;
\* the manager is single-threaded, one call runs at a time.
Return ==
    /\ last # NoCall
    /\ last' = NoCall
    /\ UNCHANGED <<registry, fs, active_project, aside>>

Next ==
    \/ Return
    \/ ActivateProject
    \/ CreateProject
    \/ DeleteProject
    \/ CopyProject

Spec == Init /\ [][Next]_vars

----------------------------------------------------------------------------
(* The name mappings: raw names are mapped to segments, and projects are
   created under the mapped names on a fresh manager *)

MaxMapped == 2

\* A raw name goes through both mappings: safe_filename as the legacy
\* manager calls it, and get_clean_project_name.
MapName ==
    \E name \in MapperNames :
        /\ last = NoCall
        /\ Len(mapped) < MaxMapped
        /\ mapped' = Append(mapped, [raw     |-> name,
                                     segment |-> safe_filename(name, TRUE),
                                     clean   |-> get_clean_project_name(name),
                                     created |-> FALSE])
        /\ UNCHANGED <<registry, fs, active_project, last, files, store, store_last, beyond>>

\* create_project under a mapped raw name; `created` records that the call
\* returned a project.
CreateMapped ==
    \E i \in DOMAIN mapped, exist_ok \in BOOLEAN :
        LET r == create_project(registry, fs, active_project,
                                mapped[i].raw, 0, exist_ok, FALSE)
        IN  /\ last = NoCall
            /\ ~mapped[i].created
            /\ Apply(r)
            /\ last' = Call("create_project", mapped[i].raw, 0, exist_ok, FALSE, r)
            /\ mapped' = [mapped EXCEPT ![i].created = (r.err = "none")]
            /\ UNCHANGED <<files, store, store_last, beyond>>

NextNames ==
    \/ MapName
    \/ CreateMapped
    \/ Return

SpecNames == Init /\ [][NextNames]_vars

----------------------------------------------------------------------------
(* The serialized store: SerializedDict, PickledDict, Preferences *)

\* Preferences keys, in the order their items are written, and the values
\* stored under them; a lambda is a value pickle cannot serialize.
KeyOrder == << "biosphere", "use_cache" >>

Keys == Range(KeyOrder)

Values == { "True", "False", "lambda" }

Unpicklable == { "lambda" }

Mappings == UNION { [S -> Values] : S \in SUBSET Keys }

EmptyMapping == [key \in {} |-> "True"]

SetKey(data, key, value) ==
    [k \in DOMAIN data \cup {key} |-> IF k = key THEN value ELSE data[k]]

DelKey(data, key) == [k \in DOMAIN data \ {key} |-> data[k]]

\* A pickle is a sequence of opcodes: the protocol header, one item per
\* key, the stop opcode.  A GLOBAL opcode names a class to import.
PROTO == <<"PROTO">>

STOP == <<"STOP">>

GLOBAL == <<"GLOBAL", "missing_module", "Class">>

\* pickle.dump(data, f, protocol=4): the bytes, or PicklingError with
\* nothing written.
pickle_dump(data) ==
    LET keys == SelectSeq(KeyOrder, LAMBDA k : k \in DOMAIN data)
    IN  IF \E k \in DOMAIN data : data[k] \in Unpicklable
        THEN [err |-> "PicklingError", bytes |-> <<>>]
        ELSE [err |-> "none",
              bytes |-> <<PROTO>> \o [i \in 1..Len(keys) |-> <<keys[i], data[keys[i]]>>]
                                  \o <<STOP>>]

\* pickle.load: EOFError on an empty file or a bare header, ImportError
\* (ModuleNotFoundError) on a GLOBAL of a module that cannot be imported,
\* UnpicklingError on any other byte sequence that is not a whole pickle.
pickle_load(bytes) ==
    LET n     == Len(bytes)
        items == SubSeq(bytes, 2, n - 1)
        IsItem(t) == Len(t) = 2 /\ t[1] \in Keys /\ t[2] \in Values
    IN  IF bytes = <<>> \/ bytes = <<PROTO>> THEN [err |-> "EOFError", value |-> EmptyMapping]
        ELSE IF bytes[1] # PROTO THEN [err |-> "UnpicklingError", value |-> EmptyMapping]
        ELSE IF bytes[2] = GLOBAL THEN [err |-> "ImportError", value |-> EmptyMapping]
        ELSE IF bytes[n] # STOP \/ \E i \in DOMAIN items : ~IsItem(items[i])
             THEN [err |-> "UnpicklingError", value |-> EmptyMapping]
        ELSE [err |-> "none",
              value |-> [k \in { items[i][1] : i \in DOMAIN items } |->
                            LET i == CHOOSE j \in DOMAIN items : items[j][1] = k
                            IN  items[i][2]]]

\* SerializedDict.filepath for Preferences, the temporary file atomic_open
\* writes, and the file backup() names for the time t.
filepath == <<"preferences.pickle">>

temp_path(path) == Append(path, "tmp")

backup_path(t) == <<"backups", "preferences.pickle", t, "backup">>

Times == { "1700000000", "1700000001" }

WriteFile(f, path, bytes) ==
    [p \in DOMAIN f \cup {path} |-> IF p = path THEN bytes ELSE f[p]]

RemoveFile(f, path) == [p \in DOMAIN f \ {path} |-> f[p]]

\* What can go wrong while a file is written: nothing, an I/O error of the
\* write or of the rename, or the end of the process after `upto` opcodes.
NoFault == [kind |-> "none", upto |-> 0]

Faults ==
    { NoFault, [kind |-> "OSError", upto |-> 0] }
    \cup { [kind |-> "crash", upto |-> n] : n \in 0..(Len(KeyOrder) + 2) }

Prefix(bytes, n) == SubSeq(bytes, 1, IF n < Len(bytes) THEN n ELSE Len(bytes))

\* Fault variant: the target is opened for writing and written in place.
open_in_place(f, path, bytes, fault) ==
    CASE fault.kind = "none"    -> [err |-> "none", files |-> WriteFile(f, path, bytes)]
      [] fault.kind = "OSError" -> [err |-> "OSError", files |-> WriteFile(f, path, <<>>)]
      [] fault.kind = "crash"   -> [err |-> "crash",
                                    files |-> WriteFile(f, path, Prefix(bytes, fault.upto))]

\* fatomic.open as a context manager around one write of `bytes`: the bytes
\* go to a temporary file in the same directory, which is renamed over the
\* target when the block ends; an error removes the temporary file and
\* leaves the target alone; a process that ends midway leaves the
\* temporary file with what was written so far.
atomic_open(f, path, bytes, fault) ==
    CASE fault.kind = "none" ->
            [err |-> "none", files |-> WriteFile(RemoveFile(f, temp_path(path)), path, bytes)]
      [] fault.kind = "OSError" ->
            [err |-> "OSError", files |-> RemoveFile(f, temp_path(path))]
      [] fault.kind = "crash" ->
            [err |-> "crash",
             files |-> WriteFile(f, temp_path(path), Prefix(bytes, fault.upto))]

StoreClasses == { "SerializedDict", "Preferences" }

StoreResult(e, f, data) ==
    [err |-> e, files |-> f, store |-> IF e = "crash" THEN None ELSE data]

\* serialize(): SerializedDict.serialize stops at the undefined name
\* JsonWrapper inside the atomic_open block; PickledDict.serialize dumps the
\* data into the atomic_open file.
serialize(class, f, data, fault) ==
    IF class = "SerializedDict"
    THEN [err |-> "NameError", files |-> RemoveFile(f, temp_path(filepath))]
    ELSE LET pickled == pickle_dump(data)
         IN  IF pickled.err # "none"
             THEN [err |-> pickled.err, files |-> RemoveFile(f, temp_path(filepath))]
             ELSE atomic_open(f, filepath, pickled.bytes, fault)

\* deserialize(): SerializedDict.deserialize stops at the undefined name
\* JsonWrapper; PickledDict.deserialize opens the file (FileNotFoundError,
\* an IOError, when it is absent), loads the pickle and turns ImportError,
\* and no other error, into PickleError.
deserialize(class, f) ==
    IF class = "SerializedDict" THEN [err |-> "NameError", value |-> EmptyMapping]
    ELSE IF filepath \notin DOMAIN f THEN [err |-> "IOError", value |-> EmptyMapping]
    ELSE LET loaded == pickle_load(f[filepath])
         IN  IF loaded.err = "ImportError"
             THEN [err |-> "PickleError", value |-> EmptyMapping]
             ELSE loaded

\* Fault variant: the item is set in memory and not flushed.
setitem_without_flush(class, f, data, key, value, fault) ==
    StoreResult("none", f, Some(SetKey(data, key, value)))

\* SerializedDict.__setitem__: the item is set in memory, then flush().
setitem(class, f, data, key, value, fault) ==
    LET data1   == SetKey(data, key, value)
        flushed == serialize(class, f, data1, fault)
    IN  StoreResult(flushed.err, flushed.files, Some(data1))

\* SerializedDict.__delitem__: KeyError for a missing key, else the item is
\* deleted in memory, then flush().
delitem(class, f, data, key, fault) ==
    IF key \notin DOMAIN data THEN StoreResult("KeyError", f, Some(data))
    ELSE LET data1   == DelKey(data, key)
             flushed == serialize(class, f, data1, fault)
         IN  StoreResult(flushed.err, flushed.files, Some(data1))

\* SerializedDict.load: the deserialized data; on IOError the empty mapping,
\* flushed.  Any other error of deserialize leaves the constructor.
load(class, f, fault) ==
    LET loaded  == deserialize(class, f)
        flushed == serialize(class, f, EmptyMapping, fault)
    IN  IF loaded.err = "none" THEN StoreResult("none", f, Some(loaded.value))
        ELSE IF loaded.err # "IOError" THEN StoreResult(loaded.err, f, None)
        ELSE StoreResult(flushed.err, flushed.files,
                         IF flushed.err = "none" THEN Some(EmptyMapping) ELSE None)

\* Preferences.__init__ (SerializedDict.__init__ for the other class):
\* load(), then the default use_cache is set when the key is missing.
\* fault1 is met by the flush of load, fault2 by the flush of the default.
StoreInit(class, f, fault1, fault2) ==
    LET loaded == load(class, f, fault1)
        set    == setitem(class, loaded.files, loaded.store[1], "use_cache", "True", fault2)
    IN  IF loaded.err # "none" THEN loaded
        ELSE IF class # "Preferences" \/ "use_cache" \in DOMAIN loaded.store[1] THEN loaded
        ELSE IF set.err = "none" THEN set
        ELSE StoreResult(set.err, set.files, None)

\* SerializedDict.backup: serialize(filepath) with the backup path for the
\* time t.  SerializedDict.serialize stops at JsonWrapper as it does for the
\* primary file; PickledDict.serialize takes no filepath, so the call is a
\* TypeError before any file is opened.
backup(class, f, data, t) ==
    IF class = "SerializedDict"
    THEN StoreResult("NameError", RemoveFile(f, temp_path(backup_path(t))), Some(data))
    ELSE StoreResult("TypeError", f, Some(data))

StoreCall(op, class, key, value, r) ==
    [op |-> op, class |-> class, key |-> key, value |-> value, err |-> r.err,
     before |-> [files |-> files, store |-> store]]

StoreApply(r) ==
    /\ files' = r.files
    /\ store' = r.store
    /\ UNCHANGED <<registry, fs, active_project, last, mapped, beyond>>

\* The contents a store file can be found with when a process starts:
\* whole pickles, a bare header, a pickle cut short, a pickle of a class
\* whose module is gone, an empty file.
FoundContents ==
    { pickle_dump(m).bytes : m \in { m \in Mappings : pickle_dump(m).err = "none" } }
    \cup { <<>>, <<PROTO>>, <<PROTO, <<"use_cache", "True">> >>, <<PROTO, GLOBAL, STOP>> }

InitStore ==
    /\ registry = <<>>
    /\ fs = {dir_base_data, dir_base_logs, database_path}
    /\ active_project = None
    /\ last = NoCall
    /\ mapped = <<>>
    /\ files \in {NoFiles} \cup { WriteFile(NoFiles, filepath, c) : c \in FoundContents }
    /\ store = None
    /\ store_last = NoStoreCall
    /\ BeyondIdle

\* Preferences(dirpath), or the constructor of a JSON SerializedDict.
OpenStore ==
    \E class \in StoreClasses, fault1, fault2 \in Faults :
        LET r == StoreInit(class, files, fault1, fault2)
        IN  /\ store_last = NoStoreCall
            /\ store = None
            /\ StoreApply(r)
            /\ store_last' = StoreCall("open", class, "none", "none", r)

SetItem ==
    \E key \in Keys, value \in Values, fault \in Faults :
        LET r == setitem("Preferences", files, store[1], key, value, fault)
        IN  /\ store_last = NoStoreCall
            /\ store # None
            /\ StoreApply(r)
            /\ store_last' = StoreCall("setitem", "Preferences", key, value, r)

DelItem ==
    \E key \in Keys, fault \in Faults :
        LET r == delitem("Preferences", files, store[1], key, fault)
        IN  /\ store_last = NoStoreCall
            /\ store # None
            /\ StoreApply(r)
            /\ store_last' = StoreCall("delitem", "Preferences", key, "none", r)

\* key holds the time int(time()) returns.
Backup ==
    \E t \in Times :
        LET r == backup("Preferences", files, store[1], t)
        IN  /\ store_last = NoStoreCall
            /\ store # None
            /\ StoreApply(r)
            /\ store_last' = StoreCall("backup", "Preferences", t, "none", r)

\* The process that holds the store ends; the files stay.
Exit ==
    /\ store_last = NoStoreCall
    /\ store # None
    /\ store' = None
    /\ UNCHANGED <<registry, fs, active_project, last, mapped, files, store_last, beyond>>

StoreReturn ==
    /\ store_last # NoStoreCall
    /\ store_last' = NoStoreCall
    /\ UNCHANGED <<registry, fs, active_project, last, mapped, files, store, beyond>>

NextStore ==
    \/ OpenStore
    \/ SetItem
    \/ DelItem
    \/ Backup
    \/ Exit
    \/ StoreReturn

SpecStore == InitStore /\ [][NextStore]_vars

----------------------------------------------------------------------------
(* Two ProjectsManager instances in one process, each constructed on its own
   fresh root.  The paths of `roots[i]` are relative to root i.  The Project
   model is bound to the one module-level SQLITE_DATABASE, and every
   DatabaseHelper method is static on it. *)

\* Project names with a non-empty slug: the base directories and the
\* database file of a root are then never removed, so the file of
\* whichever root SQLITE_DATABASE points at stays writable.
TwoNames == { <<"a">>, <<"b">> }

\* DatabaseHelper.init_db: SQLITE_DATABASE.init(database_name) points the
\* shared database object at the file of this root; create_tables makes the
\* file and its empty table if they are not there.
init_db(root) == Some(root)

\* What `for project in manager` answers, through whichever manager:
\* the rows of the database SQLITE_DATABASE is initialised with.
Seen == { row.name : row \in Range(databases[SQLITE_DATABASE[1]]) }

TwoCall(op, root, name, r) ==
    [op |-> op, root |-> root, name |-> name, err |-> r.err, seen |-> Seen]

\* The call reads and writes the table of the shared database, and the disk
\* and the _active_project of the manager it is made on.
TwoApply(root, r) ==
    /\ databases' = [databases EXCEPT ![SQLITE_DATABASE[1]] = r.registry]
    /\ roots' = [roots EXCEPT ![root] = r.fs]
    /\ managers' = [managers EXCEPT ![root] = Some(r.active_project)]
    /\ UNCHANGED <<SQLITE_DATABASE, projects, projects_last>>
    /\ UNCHANGED <<registry, fs, active_project, last, mapped, files, store, store_last>>

\* ProjectsManager(dir_base_data, dir_base_logs) on a fresh root: FileHelper
\* makes the base directories, then init_db.
Construct ==
    \E root \in Roots :
        /\ two_last = NoTwoCall
        /\ managers[root] = None
        /\ roots' = [roots EXCEPT ![root] = @ \cup {dir_base_data, dir_base_logs, database_path}]
        /\ SQLITE_DATABASE' = init_db(root)
        /\ managers' = [managers EXCEPT ![root] = Some(None)]
        /\ UNCHANGED <<databases, two_last, projects, projects_last>>
        /\ UNCHANGED <<registry, fs, active_project, last, mapped, files, store, store_last>>

TwoCreateProject ==
    \E root \in Roots, name \in TwoNames, exist_ok, activate \in BOOLEAN :
        /\ two_last = NoTwoCall
        /\ managers[root] # None
        /\ LET r == create_project(databases[SQLITE_DATABASE[1]], roots[root],
                                   managers[root][1], name, 0, exist_ok, activate)
           IN  /\ TwoApply(root, r)
               /\ two_last' = TwoCall("create_project", root, name, r)

TwoDeleteProject ==
    \E root \in Roots, name \in TwoNames, not_exist_ok, delete_dir \in BOOLEAN :
        /\ two_last = NoTwoCall
        /\ managers[root] # None
        /\ LET r == delete_project(databases[SQLITE_DATABASE[1]], roots[root],
                                   managers[root][1], name, not_exist_ok, delete_dir)
           IN  /\ TwoApply(root, r)
               /\ two_last' = TwoCall("delete_project", root, name, r)

TwoCopyProject ==
    \E root \in Roots, new_name \in TwoNames, dirs_exist_ok, switch \in BOOLEAN :
        /\ two_last = NoTwoCall
        /\ managers[root] # None
        /\ LET r == copy_project(databases[SQLITE_DATABASE[1]], roots[root],
                                 managers[root][1], new_name, dirs_exist_ok, switch)
           IN  /\ TwoApply(root, r)
               /\ two_last' = TwoCall("copy_project", root, new_name, r)

TwoReturn ==
    /\ two_last # NoTwoCall
    /\ two_last' = NoTwoCall
    /\ UNCHANGED <<roots, databases, SQLITE_DATABASE, managers, projects, projects_last>>
    /\ UNCHANGED <<registry, fs, active_project, last, mapped, files, store, store_last>>

NextTwo ==
    \/ Construct
    \/ TwoCreateProject
    \/ TwoDeleteProject
    \/ TwoCopyProject
    \/ TwoReturn

SpecTwo == Init /\ [][NextTwo]_vars

----------------------------------------------------------------------------
(* The legacy ProjectManager, constructed with or without a folder *)

\* The directory request_directory is asked for by output_dir.
RequestNames == { <<"o", "u", "t", "p", "u", "t">> }

LegacyCall(op, name, flag, r) ==
    [op |-> op, name |-> name, flag |-> flag, err |-> r.err, value |-> r.value,
     before |-> projects]

LegacyApply(r) ==
    /\ projects' = r.state
    /\ UNCHANGED <<roots, databases, SQLITE_DATABASE, managers, two_last>>
    /\ UNCHANGED <<registry, fs, active_project, last, mapped, files, store, store_last>>

InitLegacy ==
    /\ registry = <<>>
    /\ fs = {dir_base_data, dir_base_logs, database_path}
    /\ active_project = None
    /\ last = NoCall
    /\ mapped = <<>>
    /\ files = NoFiles
    /\ store = None
    /\ store_last = NoStoreCall
    /\ TwoIdle
    /\ projects \in { ProjectManager(dir_base_logs), ProjectManager(folder_logs_dir) }
    /\ projects_last = NoLegacyCall

SetCurrent ==
    \E name \in LegacyNames :
        LET r == set_current(projects, name, 0)
        IN  /\ projects_last = NoLegacyCall
            /\ LegacyApply(r)
            /\ projects_last' = LegacyCall("set_current", Some(name), FALSE, r)

LegacyCreateProject ==
    \E name \in LegacyArguments :
        LET r == legacy_create_project(projects, name, 0)
        IN  /\ projects_last = NoLegacyCall
            /\ LegacyApply(r)
            /\ projects_last' = LegacyCall("create_project", name, FALSE, r)

\* flag is switch.
LegacyCopyProject ==
    \E new_name \in LegacyNames, switch, fault \in BOOLEAN :
        LET r == legacy_copy_project(projects, new_name, switch, fault)
        IN  /\ projects_last = NoLegacyCall
            /\ LegacyApply(r)
            /\ projects_last' = LegacyCall("copy_project", Some(new_name), switch, r)

\* flag is delete_dir.
LegacyDeleteProject ==
    \E name \in LegacyArguments, delete_dir \in BOOLEAN :
        LET r == legacy_delete_project(projects, name, delete_dir)
        IN  /\ projects_last = NoLegacyCall
            /\ LegacyApply(r)
            /\ projects_last' = LegacyCall("delete_project", name, delete_dir, r)

RequestDirectory ==
    \E name \in RequestNames :
        LET r == request_directory(projects, name)
        IN  /\ projects_last = NoLegacyCall
            /\ LegacyApply(r)
            /\ projects_last' = LegacyCall("request_directory", Some(name), FALSE, r)

PurgeDeletedDirectories ==
    LET r == purge_deleted_directories(projects)
    IN  /\ projects_last = NoLegacyCall
        /\ LegacyApply(r)
        /\ projects_last' = LegacyCall("purge_deleted_directories", None, FALSE, r)

UseShortHash ==
    LET r == use_short_hash(projects)
    IN  /\ projects_last = NoLegacyCall
        /\ LegacyApply(r)
        /\ projects_last' = LegacyCall("use_short_hash", None, FALSE, r)

UseFullHash ==
    LET r == use_full_hash(projects)
    IN  /\ projects_last = NoLegacyCall
        /\ LegacyApply(r)
        /\ projects_last' = LegacyCall("use_full_hash", None, FALSE, r)

LegacyReturn ==
    /\ projects_last # NoLegacyCall
    /\ projects_last' = NoLegacyCall
    /\ UNCHANGED <<projects, roots, databases, SQLITE_DATABASE, managers, two_last>>
    /\ UNCHANGED <<registry, fs, active_project, last, mapped, files, store, store_last>>

NextLegacy ==
    \/ SetCurrent
    \/ LegacyCreateProject
    \/ LegacyCopyProject
    \/ LegacyDeleteProject
    \/ RequestDirectory
    \/ PurgeDeletedDirectories
    \/ UseShortHash
    \/ UseFullHash
    \/ LegacyReturn

SpecLegacy == InitLegacy /\ [][NextLegacy]_vars

----------------------------------------------------------------------------
(* Properties *)

Rows == Range(registry)

HasRow(reg, n) == \E row \in Range(reg) : row.name = n

RowNamed(reg, n) == CHOOSE row \in Range(reg) : row.name = n

\* The cleaned name of the call that has just ended, and the state it began in.
LastName == get_clean_project_name(last.name)

Before == last.before

Ended(op) == last.op = op

Returned(op) == last.op = op /\ last.err = "none"

NothingChanged ==
    /\ registry = Before.registry
    /\ fs = Before.fs
    /\ active_project = Before.active_project

DataDir(n) == Join(dir_base_data, n)

LogsDir(n) == Join(dir_base_logs, n)

\* The workspace tree of a row is on disk: its data directory with the four
\* basic directories, and its logs directory.
TreeExists(f, row) ==
    /\ row.dir_data \in f
    /\ \A d \in Range(basic_directories(row.dir_data)) : d \in f
    /\ row.dir_logs \in f

\* C1: in every reachable state every project that has a registry row has
\* its data directory with the four basic directories and its logs directory
\* on disk.
C1_RowsHaveTrees == \A row \in Rows : TreeExists(fs, row)


C1_Witness ==
    /\ Returned("create_project")
    /\ ~HasRow(Before.registry, LastName)
    /\ HasRow(registry, LastName)
    /\ TreeExists(fs, RowNamed(registry, LastName))

\* C2: create_project(n) with exist_ok=False on a name whose project exists
\* raises ProjectExistsError and leaves the registry, the directories and
\* the active project as they were.
C2_SecondCreateRaises ==
    (Ended("create_project") /\ ~last.flag1 /\ HasRow(Before.registry, LastName))
        => (last.err = "ProjectExistsError" /\ NothingChanged)

C2_Witness ==
    /\ Ended("create_project")
    /\ ~last.flag1
    /\ HasRow(Before.registry, LastName)
    /\ last.err = "ProjectExistsError"

\* C3: after delete_project(n) of an existing project has returned, n has no
\* row; with delete_dir=True neither its data nor its logs directory exists,
\* with delete_dir=False both still exist.
C3_DeleteRemovesRowAndTree ==
    (Returned("delete_project") /\ HasRow(Before.registry, LastName))
        => /\ ~HasRow(registry, LastName)
           /\ last.flag2 => (DataDir(LastName) \notin fs /\ LogsDir(LastName) \notin fs)
           /\ ~last.flag2 => (DataDir(LastName) \in fs /\ LogsDir(LastName) \in fs)

C3_WitnessDeleteDir ==
    /\ Returned("delete_project")
    /\ HasRow(Before.registry, LastName)
    /\ last.flag2
    /\ DataDir(LastName) \in Before.fs
    /\ DataDir(LastName) \notin fs

C3_WitnessKeepDir ==
    /\ Returned("delete_project")
    /\ HasRow(Before.registry, LastName)
    /\ ~last.flag2
    /\ DataDir(LastName) \in fs

C3_Witness == C3_WitnessDeleteDir \/ C3_WitnessKeepDir

\* C4: a delete_project that removes the row of the active project leaves no
\* project active, whatever delete_dir is.
C4_DeleteActiveClearsPointer ==
    ( /\ Ended("delete_project")
      /\ Before.active_project # None
      /\ Before.active_project[1].name = LastName
      /\ HasRow(Before.registry, LastName)
      /\ ~HasRow(registry, LastName) )
        => active_project = None

C4_Witness ==
    /\ Returned("delete_project")
    /\ Before.active_project # None
    /\ Before.active_project[1].name = LastName
    /\ Len(registry) > 0
    /\ active_project = None

\* C5: delete_project of an existing project that is not the active one
\* returns without error, removes the row and leaves the active project
\* unchanged, whether another project is active or none is.
C5_DeleteNonActive ==
    ( /\ Ended("delete_project")
      /\ HasRow(Before.registry, LastName)
      /\ \/ Before.active_project = None
         \/ Before.active_project[1].name # LastName )
        => /\ last.err = "none"
           /\ ~HasRow(registry, LastName)
           /\ active_project = Before.active_project

\* C6: after copy_project has returned, with switch=True the active project
\* is the new project, with switch=False it is the project that was active.
C6_CopySwitch ==
    Returned("copy_project")
        => /\ last.flag2 => ( /\ active_project # None
                              /\ active_project[1].name = LastName
                              /\ active_project[1] \in Rows )
           /\ ~last.flag2 => active_project = Before.active_project

C6_WitnessSwitch ==
    /\ Returned("copy_project")
    /\ last.flag2
    /\ Before.active_project[1].name # LastName

C6_WitnessNoSwitch == Returned("copy_project") /\ ~last.flag2

C6_Witness == C6_WitnessSwitch \/ C6_WitnessNoSwitch

\* C7: after copy_project of the active project p to new_name has returned,
\* the registry holds both, new_name's attributes are those p had, p's row
\* is unchanged and both workspace trees are on disk.
C7_CopyDuplicates ==
    Returned("copy_project")
        => LET p == Before.active_project[1].name
           IN  /\ HasRow(Before.registry, p)
               /\ HasRow(registry, p)
               /\ HasRow(registry, LastName)
               /\ p # LastName
               /\ RowNamed(registry, LastName).attributes
                      = RowNamed(Before.registry, p).attributes
               /\ RowNamed(registry, p) = RowNamed(Before.registry, p)
               /\ TreeExists(fs, RowNamed(registry, p))
               /\ TreeExists(fs, RowNamed(registry, LastName))

C7_Witness ==
    /\ Returned("copy_project")
    /\ RowNamed(registry, LastName).attributes # 0
    /\ Len(registry) > 2

\* C8: copy_project raises ProjectExistsError whenever the cleaned new name
\* already has a row, for every dirs_exist_ok and switch, and then nothing
\* is copied, no row is added or changed and the active project stays.
C8_CopyExistingRaises ==
    (Ended("copy_project") /\ HasRow(Before.registry, LastName))
        => (last.err = "ProjectExistsError" /\ NothingChanged)

C8_Witness ==
    /\ Ended("copy_project")
    /\ HasRow(Before.registry, LastName)
    /\ last.flag1
    /\ last.flag2
    /\ Before.active_project # None
    /\ last.err = "ProjectExistsError"

\* C9: copy_project called while no project is active fails with the
\* dedicated no-active-project error and adds no row and no directory.
C9_CopyWithoutActive ==
    (Ended("copy_project") /\ Before.active_project = None)
        => /\ last.err = "NoActiveProjectError"
           /\ registry = Before.registry
           /\ fs = Before.fs

\* C10: activate_project(name) raises DoesNotExist for a name without a row
\* and leaves the active project as it was; for a name with a row it makes
\* that row the active project.
C10_Activate ==
    Ended("activate_project")
        => /\ ~HasRow(Before.registry, LastName)
                => (last.err = "DoesNotExist" /\ NothingChanged)
           /\ HasRow(Before.registry, LastName)
                => /\ last.err = "none"
                   /\ active_project = Some(RowNamed(registry, LastName))
                   /\ registry = Before.registry
                   /\ fs = Before.fs

C10_WitnessMissing ==
    /\ Ended("activate_project")
    /\ ~HasRow(Before.registry, LastName)
    /\ Before.active_project # None
    /\ active_project = Before.active_project

C10_WitnessFound ==
    /\ Returned("activate_project")
    /\ Before.active_project # None
    /\ Before.active_project[1].name # LastName
    /\ active_project[1].name = LastName

C10_Witness == C10_WitnessMissing \/ C10_WitnessFound

\* C11: create_project(n, attributes, exist_ok=True) on a name whose project
\* exists succeeds, returns the stored record, and leaves that record (its
\* attributes, dir_data and dir_logs), the registry and the directories as
\* they were, whatever attributes the call passes.
C11_CreateExistingReturnsRecord ==
    (Ended("create_project") /\ last.flag1 /\ HasRow(Before.registry, LastName))
        => /\ last.err = "none"
           /\ last.value = Some(RowNamed(Before.registry, LastName))
           /\ HasRow(registry, LastName)
           /\ RowNamed(registry, LastName) = RowNamed(Before.registry, LastName)
           /\ registry = Before.registry
           /\ fs = Before.fs

C11_Witness ==
    /\ Returned("create_project")
    /\ last.flag1
    /\ HasRow(Before.registry, LastName)
    /\ last.attributes # RowNamed(Before.registry, LastName).attributes
    /\ last.value = Some(RowNamed(registry, LastName))

\* C12: delete_project(n) for a name without a row raises DoesNotExist when
\* not_exist_ok is False and returns normally when it is True; either way
\* the registry, the directories and the active project are as before and
\* no callback has been invoked, with or without an active project.
C12_DeleteMissing ==
    (Ended("delete_project") /\ ~HasRow(Before.registry, LastName))
        => /\ last.err = (IF last.flag1 THEN "none" ELSE "DoesNotExist")
           /\ NothingChanged
           /\ last.callbacks = <<>>

C12_WitnessActive ==
    /\ Returned("delete_project")
    /\ last.flag1
    /\ ~HasRow(Before.registry, LastName)
    /\ Before.active_project # None
    /\ active_project = Before.active_project

C12_WitnessNoActive ==
    /\ Returned("delete_project")
    /\ last.flag1
    /\ ~HasRow(Before.registry, LastName)
    /\ Before.active_project = None
    /\ Before.registry # <<>>

C12_WitnessRaises ==
    /\ Ended("delete_project")
    /\ ~last.flag1
    /\ last.err = "DoesNotExist"
    /\ Before.active_project # None

C12_Witness == C12_WitnessActive \/ C12_WitnessNoActive \/ C12_WitnessRaises

\* C13: a newly constructed manager has no active project, and a step
\* changes the active project only if it is activate_project,
\* create_project with activate=True, copy_project with switch=True, or a
\* delete_project of the project that was active; in particular
\* create_project with activate=False leaves the active project as it was.
ActivePointerMayChange ==
    \/ last'.op = "activate_project"
    \/ last'.op = "create_project" /\ last'.flag2
    \/ last'.op = "copy_project" /\ last'.flag2
    \/ /\ last'.op = "delete_project"
       /\ active_project # None
       /\ active_project[1].name = get_clean_project_name(last'.name)
       /\ active_project' = None

C13_ActivePointerChanges ==
    /\ active_project = None
    /\ [][/\ active_project' # active_project => ActivePointerMayChange
          /\ (last'.op = "create_project" /\ ~last'.flag2)
                => active_project' = active_project]_vars

C13_Witness ==
    /\ Returned("create_project")
    /\ ~last.flag2
    /\ ~HasRow(Before.registry, LastName)
    /\ HasRow(registry, LastName)
    /\ Before.active_project # None
    /\ active_project = Before.active_project

C14_WitnessSameClean ==
    /\ Len(mapped) = 2
    /\ mapped[1].raw # mapped[2].raw
    /\ mapped[1].clean = mapped[2].clean
    /\ mapped[1].created /\ mapped[2].created
    /\ Len(registry) = 1

C14_WitnessDistinctClean ==
    /\ Len(mapped) = 2
    /\ mapped[1].clean # mapped[2].clean
    /\ mapped[1].created /\ mapped[2].created
    /\ Len(registry) = 2

C15_CreateSameCleanNameRaises ==
    (/\ Ended("create_project")
     /\ ~last.flag1
     /\ ~HasRow(Before.registry, last.name)
     /\ HasRow(Before.registry, LastName))
        => /\ last.err = "ProjectExistsError"
           /\ Len(registry) = Len(Before.registry)
           /\ Rows = Range(Before.registry)
           /\ fs = Before.fs

C15_Witness ==
    /\ Ended("create_project")
    /\ ~last.flag1
    /\ last.name # LastName
    /\ LastName # <<>>
    /\ HasRow(Before.registry, LastName)
    /\ last.err = "ProjectExistsError"

\* C16: every raw name maps to a non-empty segment, under safe_filename and
\* under get_clean_project_name, so the data directory of every project is
\* a strict subdirectory of the base data directory, never the base itself.
C16_SegmentsNonEmpty ==
    /\ \A i \in DOMAIN mapped :
          /\ mapped[i].segment # <<>>
          /\ mapped[i].clean # <<>>
    /\ \A row \in Rows :
          /\ row.dir_data # dir_base_data
          /\ IsPrefix(dir_base_data, row.dir_data)

\* A project whose data directory is the base data directory itself.
C16_Witness ==
    \E i \in DOMAIN mapped :
        /\ mapped[i].created
        /\ mapped[i].segment # <<>>
        /\ mapped[i].clean = <<>>
        /\ \E row \in Rows : row.name = <<>> /\ row.dir_data = dir_base_data

\* The store operation that has just ended, and the state it began in.
StoreEnded(op) == store_last.op = op

StoreReturned(op) == store_last.op = op /\ store_last.err = "none"

StoreBefore == store_last.before

Loadable(f) == filepath \in DOMAIN f /\ pickle_load(f[filepath]).err = "none"

Loaded(f) == pickle_load(f[filepath]).value

\* The mappings a write of the operation that has just ended can carry.
NewStates ==
    CASE store_last.op = "setitem" ->
            { SetKey(StoreBefore.store[1], store_last.key, store_last.value) }
      [] store_last.op = "delitem" ->
            { DelKey(StoreBefore.store[1], store_last.key) }
      [] store_last.op = "open" ->
            { EmptyMapping, SetKey(EmptyMapping, "use_cache", "True") }
            \cup (IF Loadable(StoreBefore.files)
                  THEN { SetKey(Loaded(StoreBefore.files), "use_cache", "True") }
                  ELSE {})
      [] OTHER -> {}

\* C17: whatever happens during a write of the store (it completes, it fails
\* with an I/O error, the process ends after any number of opcodes), the
\* backing file afterwards is what it was before the operation, or it is
\* the whole serialization of the operation's new state; it is never cut
\* short.
C17_WriteIsAtomic ==
    store_last.op \in { "open", "setitem", "delitem" }
        => \/ /\ filepath \notin DOMAIN files
              /\ filepath \notin DOMAIN StoreBefore.files
           \/ /\ filepath \in DOMAIN files
              /\ filepath \in DOMAIN StoreBefore.files
              /\ files[filepath] = StoreBefore.files[filepath]
           \/ /\ Loadable(files)
              /\ Loaded(files) \in NewStates

C17_WitnessCrash ==
    /\ StoreEnded("setitem")
    /\ store_last.err = "crash"
    /\ temp_path(filepath) \in DOMAIN files
    /\ pickle_load(files[temp_path(filepath)]).err = "UnpicklingError"
    /\ Loadable(files)
    /\ Loaded(files) = StoreBefore.store[1]
    /\ Loaded(files) \notin NewStates

C17_WitnessError ==
    /\ StoreEnded("setitem")
    /\ store_last.err = "OSError"
    /\ Loadable(files)
    /\ Loaded(files) \notin NewStates

C17_Witness == C17_WitnessCrash \/ C17_WitnessError

\* C18: after every store operation that changes the data and completes (an
\* item set, an item deleted, the constructor with its default), loading
\* the backing file gives exactly the mapping the store holds in memory.
C18_FileIsMemory ==
    (\/ StoreReturned("open")
     \/ StoreReturned("setitem")
     \/ StoreReturned("delitem"))
        => /\ store # None
           /\ filepath \in DOMAIN files
           /\ pickle_load(files[filepath]) = [err |-> "none", value |-> store[1]]

\* A set completes on a store whose file had fallen behind its memory.
C18_Witness ==
    /\ StoreReturned("setitem")
    /\ store[1] # StoreBefore.store[1]
    /\ Loaded(StoreBefore.files) # StoreBefore.store[1]
    /\ Loaded(files) = store[1]
    /\ DOMAIN store[1] = Keys

\* C19: opening the Preferences store with no I/O fault: with the file
\* absent the store starts empty but for its default and the file is
\* created; with a file that holds a whole pickle the store holds its data;
\* with a file that cannot be deserialized the constructor raises
\* PickleError and no store is returned.
C19_OpenStore ==
    (/\ StoreEnded("open")
     /\ store_last.class = "Preferences"
     /\ store_last.err \notin { "OSError", "crash" })
        => /\ filepath \notin DOMAIN StoreBefore.files
                => /\ store_last.err = "none"
                   /\ store = Some(SetKey(EmptyMapping, "use_cache", "True"))
                   /\ Loadable(files)
           /\ Loadable(StoreBefore.files)
                => /\ store_last.err = "none"
                   /\ store \in { Some(Loaded(StoreBefore.files)),
                                  Some(SetKey(Loaded(StoreBefore.files), "use_cache", "True")) }
           /\ (filepath \in DOMAIN StoreBefore.files /\ ~Loadable(StoreBefore.files))
                => /\ store_last.err = "PickleError"
                   /\ store = None

\* A file cut short makes the constructor raise UnpicklingError.
C19_Witness ==
    /\ StoreEnded("open")
    /\ store_last.class = "Preferences"
    /\ filepath \in DOMAIN StoreBefore.files
    /\ StoreBefore.files[filepath] = <<PROTO, <<"use_cache", "True">> >>
    /\ store_last.err = "UnpicklingError"
    /\ store = None

\* C20: backup() on the Preferences store writes the serialization of the
\* current data to the file named for the time under backups, and leaves
\* the primary file and the data in memory as they were.
C20_BackupWritesCopy ==
    StoreEnded("backup")
        => /\ store_last.err = "none"
           /\ backup_path(store_last.key) \in DOMAIN files
           /\ pickle_load(files[backup_path(store_last.key)])
                = [err |-> "none", value |-> store[1]]
           /\ store = StoreBefore.store
           /\ \A path \in DOMAIN StoreBefore.files :
                 path \in DOMAIN files /\ files[path] = StoreBefore.files[path]

\* backup() ends in TypeError with no file written.
C20_Witness ==
    /\ StoreEnded("backup")
    /\ store_last.err = "TypeError"
    /\ files = StoreBefore.files
    /\ \A t \in Times : backup_path(t) \notin DOMAIN files

\* What iterating the manager yields: the names, in the order of the rows
\* get_projects answers.
IterNames(reg) == [i \in 1..Len(reg) |-> get_projects(reg)[i].name]

PositionIn(names, n) == CHOOSE i \in DOMAIN names : names[i] = n

\* C25: iterating the manager yields the projects in the order of their
\* creation: over every step the projects that stay keep their relative
\* order, and a project that is new comes after all that were there.
C25_IterationInCreationOrder ==
    [][LET old == IterNames(registry)
           new == IterNames(registry')
       IN  \A i, j \in DOMAIN new :
              i < j =>
                 /\ new[j] \in Range(old) => new[i] \in Range(old)
                 /\ (new[i] \in Range(old) /\ new[j] \in Range(old))
                       => PositionIn(old, new[i]) < PositionIn(old, new[j])]_vars

\* The oldest of three projects has been deleted, the other two remain.
C25_Witness ==
    /\ Returned("delete_project")
    /\ Len(Before.registry) = 3
    /\ Before.registry[1].name = LastName
    /\ IterNames(registry) = << Before.registry[2].name, Before.registry[3].name >>

\* C26: `n in manager` is true once create_project(n) has succeeded, for
\* the name as it was passed to create_project, and is true of no name
\* whose project has no row.
C26_ContainsCreatedName ==
    /\ Returned("create_project") => contains(registry, last.name)
    /\ \A n \in RawNames :
          contains(registry, n) => HasRow(registry, get_clean_project_name(n))

\* create_project has made the row of a name that is not its own cleaned
\* form, and the manager does not contain the name.
C26_Witness ==
    /\ Returned("create_project")
    /\ last.name # LastName
    /\ ~HasRow(Before.registry, LastName)
    /\ HasRow(registry, LastName)
    /\ ~contains(registry, last.name)

\* The disk without the data directory of n, as when it was removed by
\* hand and the logs directory was left.
WithoutDataDir(f, n) == { q \in f : ~IsPrefix(DataDir(n), q) }

\* C27: create_project(n) with exist_ok=False, when n has no row but the
\* data directory or the logs directory of n is on disk, raises
\* FileExistsError and adds no row; so it does when only the logs
\* directory is there.
C27_CreateOverOrphanRaises ==
    /\ (/\ Ended("create_project")
        /\ ~last.flag1
        /\ ~HasRow(Before.registry, LastName)
        /\ (DataDir(LastName) \in Before.fs \/ LogsDir(LastName) \in Before.fs))
           => /\ last.err = "FileExistsError"
              /\ registry = Before.registry
    /\ \A n \in RawNames :
          (/\ get_clean_project_name(n) # <<>>
           /\ ~HasRow(registry, get_clean_project_name(n))
           /\ LogsDir(get_clean_project_name(n)) \in fs)
             => LET r == create_project(registry,
                                        WithoutDataDir(fs, get_clean_project_name(n)),
                                        active_project, n, 0, FALSE, FALSE)
                IN  /\ r.err = "FileExistsError"
                    /\ r.registry = registry

\* The orphan is the tree delete_project(n, delete_dir=False) left.
C27_WitnessOrphanTree ==
    /\ Ended("create_project")
    /\ ~last.flag1
    /\ LastName # <<>>
    /\ ~HasRow(Before.registry, LastName)
    /\ DataDir(LastName) \in Before.fs
    /\ LogsDir(LastName) \in Before.fs
    /\ last.err = "FileExistsError"

C27_Witness ==
    /\ C27_WitnessOrphanTree
    /\ WithoutDataDir(fs, LastName) # fs
    /\ LogsDir(LastName) \in WithoutDataDir(fs, LastName)

\* C29: create_project of a project without a row makes the tree before the
\* row: however the call ends, the row of the project is there only with
\* its whole tree on disk, and a call that ends in an error has added no
\* row (it leaves at most directories without a row).
C29_TreeBeforeRow ==
    (Ended("create_project") /\ ~HasRow(Before.registry, LastName))
        => /\ HasRow(registry, LastName)
                => /\ last.err = "none"
                   /\ TreeExists(fs, RowNamed(registry, LastName))
           /\ last.err # "none" => registry = Before.registry

\* The call made directories and then failed: an orphan tree, no row.
C29_Witness ==
    /\ Ended("create_project")
    /\ ~HasRow(Before.registry, LastName)
    /\ last.err # "none"
    /\ fs # Before.fs
    /\ DataDir(LastName) \in fs
    /\ ~HasRow(registry, LastName)

\* The disk without the logs directory of n, as when it was removed by
\* hand: removing the directories of n then fails half way.
WithoutLogsDir(f, n) == { q \in f : ~IsPrefix(LogsDir(n), q) }

\* C30: delete_project removes the row before any directory: however the
\* call ends, if anything of the disk has been removed the row of the
\* project is gone; a call that fails while it removes the directories
\* (the logs directory is not there) leaves no row, only what is left of
\* the tree.
C30_RowBeforeTree ==
    /\ (Ended("delete_project") /\ HasRow(Before.registry, LastName))
          => /\ fs # Before.fs => ~HasRow(registry, LastName)
             /\ last.err \in { "FileNotFoundError", "AttributeError" }
                   => ~HasRow(registry, LastName)
    /\ \A n \in RawNames :
          (/\ HasRow(registry, get_clean_project_name(n))
           /\ DataDir(get_clean_project_name(n)) \in fs
           /\ database_path \in fs)
             => LET r == delete_project(registry,
                                        WithoutLogsDir(fs, get_clean_project_name(n)),
                                        active_project, n, FALSE, TRUE)
                IN  /\ r.err = "FileNotFoundError"
                    /\ ~HasRow(r.registry, get_clean_project_name(n))
                    /\ DataDir(get_clean_project_name(n)) \notin r.fs

\* The call failed after the directories were removed: the row is gone.
C30_Witness ==
    /\ Ended("delete_project")
    /\ HasRow(Before.registry, LastName)
    /\ last.err = "AttributeError"
    /\ fs # Before.fs
    /\ ~HasRow(registry, LastName)
    /\ \E n \in RawNames :
          /\ HasRow(registry, get_clean_project_name(n))
          /\ DataDir(get_clean_project_name(n)) \in fs
          /\ LogsDir(get_clean_project_name(n)) \in fs
          /\ database_path \in fs


\* C28: two managers constructed on different fresh roots are isolated: a
\* project created, copied or deleted through one of them never appears in,
\* or disappears from, the registry seen through the other.
C28_InstancesIsolated ==
    (/\ two_last.op # "none"
     /\ \A root \in Roots : managers[root] # None)
        => Seen = two_last.seen

\* Both managers are constructed, and a project has been created through one
\* of them.
C28_Witness ==
    /\ two_last.op = "create_project"
    /\ two_last.err = "none"
    /\ \A root \in Roots : managers[root] # None
    /\ two_last.name \notin two_last.seen

----------------------------------------------------------------------------
(* Properties of the legacy ProjectManager *)

LegacyRows(p) == { p.dataset[i].name : i \in DOMAIN p.dataset }

LegacyDataDir(n) == Join(dir_base_data, safe_filename(n, TRUE))

LegacyLogsDir(p, n) == Join(p.base_logs_dir, safe_filename(n, TRUE))

\* The workspace tree of project n: its data directory with the basic
\* directories, and its logs directory.
LegacyTree(p, n) ==
    /\ LegacyDataDir(n) \in p.fs
    /\ \A i \in DOMAIN DIRS_BASIC : Join(LegacyDataDir(n), DIRS_BASIC[i]) \in p.fs
    /\ LegacyLogsDir(p, n) \in p.fs

LegacyBefore == projects_last.before

\* The directories directly below the base data directory.
Subdirectories(f) ==
    { q \in f : Len(q) = 2 /\ q[1] = dir_base_data[1] /\ q[2] # database_name }

\* C21: purge_deleted_directories deletes exactly the immediate
\* subdirectories of the base data directory that are project workspace
\* trees with no registry row, deletes no directory of a registered project,
\* and returns the number of directories it deleted.
C21_PurgeDeletesOrphans ==
    projects_last.op = "purge_deleted_directories" =>
        LET deleted == Subdirectories(LegacyBefore.fs) \ Subdirectories(projects.fs)
            orphans == { q \in Subdirectories(LegacyBefore.fs) :
                           /\ \E n \in LegacyNames : q = LegacyDataDir(n)
                           /\ \A n \in LegacyRows(projects) : q # LegacyDataDir(n) }
        IN  /\ deleted = orphans
            /\ projects_last.value = Some(Cardinality(deleted))
            /\ \A n \in LegacyRows(projects) :
                   /\ LegacyDataDir(n) \in LegacyBefore.fs => LegacyDataDir(n) \in projects.fs
                   /\ LegacyLogsDir(projects, n) \in LegacyBefore.fs
                          => LegacyLogsDir(projects, n) \in projects.fs
            /\ projects.dataset = LegacyBefore.dataset

\* A manager made with a folder purges while a registered project has its
\* tree, and an orphan tree left by delete_project(n, delete_dir=False) is
\* there too.
C21_Witness ==
    /\ projects_last.op = "purge_deleted_directories"
    /\ projects.base_logs_dir = folder_logs_dir
    /\ \E n \in LegacyRows(projects) : LegacyTree(LegacyBefore, n)
    /\ \E n \in LegacyNames \ LegacyRows(projects) :
           /\ LegacyDataDir(n) \in LegacyBefore.fs
           /\ LegacyDataDir(n) \notin projects.fs

\* The project delete_project removes: `name or self.current`.
Victim ==
    IF projects_last.name \in {None, Some(<<>>)}
    THEN LegacyBefore.project_name
    ELSE projects_last.name

\* C22: after delete_project has deleted the current project, the deleted
\* name is not current; the current project is `default` if a project named
\* default remains, otherwise one of the remaining projects, and None exactly
\* when no project remains.
C22_DeleteCurrentReelects ==
    (/\ projects_last.op = "delete_project"
     /\ projects_last.err = "none"
     /\ Victim = LegacyBefore.project_name)
        => /\ projects.project_name # Victim
           /\ default \in LegacyRows(projects) => projects.project_name = Some(default)
           /\ LegacyRows(projects) # {} => projects.project_name \in { Some(n) : n \in LegacyRows(projects) }
           /\ projects.project_name = None <=> LegacyRows(projects) = {}

\* The current project was deleted while two others remain, default among
\* them.
C22_Witness ==
    /\ projects_last.op = "delete_project"
    /\ projects_last.err = "none"
    /\ Victim = LegacyBefore.project_name
    /\ default \in LegacyRows(projects)
    /\ Cardinality(LegacyRows(projects)) = 2
    /\ projects.project_name # Some(default)

\* A project is active when `current` is a non-empty name: set_current
\* never returns with another value of `current`.
Active(p) == p.project_name # None /\ p.project_name # Some(<<>>)

C24_SetCurrent ==
    projects_last.op = "set_current" =>
        LET n == projects_last.name[1]
        IN  /\ projects_last.err = "none"
            /\ projects.project_name = Some(n)
            /\ n \in LegacyRows(projects)
            /\ LegacyTree(projects, n)
            /\ Len(projects.dataset) = Len(LegacyBefore.dataset)
                    + (IF n \in LegacyRows(LegacyBefore) THEN 0 ELSE 1)
            /\ set_current(projects, n, 0).state = projects

\* set_current was called with the empty name.
C24_Witness ==
    /\ projects_last.op = "set_current"
    /\ projects_last.name = Some(<<>>)
    /\ <<>> \in LegacyRows(projects)
    /\ ~LegacyTree(projects, <<>>)

----------------------------------------------------------------------------
(* Ordering of tree and row in copy_project *)

\* ProjectsManager.copy_project: a row it has added has its data and logs
\* directories on disk.
C31_CoreCopy ==
    (Ended("copy_project") /\ HasRow(registry, LastName) /\ ~HasRow(Before.registry, LastName))
        => /\ DataDir(LastName) \in fs
           /\ LogsDir(LastName) \in fs

\* ProjectManager.copy_project: a row it has added has its data and logs
\* directories on disk.
C31_LegacyCopy ==
    \A n \in LegacyRows(projects) \ LegacyRows(LegacyBefore) :
        projects_last.op = "copy_project"
            => /\ LegacyDataDir(n) \in projects.fs
               /\ LegacyLogsDir(projects, n) \in projects.fs

\* C31: copy_project copies the workspace tree before it creates the row for
\* new_name, in ProjectsManager and in the legacy ProjectManager alike: no
\* execution, a failing tree copy included, leaves a row for new_name while
\* its tree has not been copied.
C31_CopyTreeBeforeRow == C31_CoreCopy /\ C31_LegacyCopy

\* The legacy copy_project has raised, and its new row is there without a
\* data directory.
C31_Witness ==
    /\ projects_last.op = "copy_project"
    /\ projects_last.err = "OSError"
    /\ projects_last.name[1] \in LegacyRows(projects) \ LegacyRows(LegacyBefore)
    /\ LegacyDataDir(projects_last.name[1]) \notin projects.fs

\* C32: after the legacy create_project(name), for every name, also one
\* that is not the current project and also with no current project, the
\* registry contains name and the workspace tree of name itself exists.
C32_LegacyCreateMakesTree ==
    (projects_last.op = "create_project" /\ projects_last.name # None)
        => /\ projects_last.err = "none"
           /\ projects_last.name[1] \in LegacyRows(projects)
           /\ LegacyTree(projects, projects_last.name[1])

\* create_project has returned for a name that is not the current project:
\* the row is there, the data directory of the name is not.
C32_Witness ==
    /\ projects_last.op = "create_project"
    /\ projects_last.err = "none"
    /\ projects_last.name \notin {None, Some(<<>>)}
    /\ Active(LegacyBefore)
    /\ projects_last.name # LegacyBefore.project_name
    /\ projects_last.name[1] \in LegacyRows(projects)
    /\ LegacyDataDir(projects_last.name[1]) \notin projects.fs

----------------------------------------------------------------------------
(* The segment migration of the legacy ProjectManager *)

Migration == projects_last.op \in {"use_short_hash", "use_full_hash"}

\* C33: use_short_hash / use_full_hash on an active project whose tree
\* exists (no directory but those of the projects' present segments is on
\* disk, so the directory of a new segment does not exist) completes
\* successfully.
C33_MigrationSucceeds ==
    (/\ Migration
     /\ Active(LegacyBefore)
     /\ LegacyTree(LegacyBefore, LegacyBefore.project_name[1]))
        => projects_last.err = "none"

\* A migration was asked for on an active, registered project whose tree
\* exists.
C33_Witness ==
    /\ Migration
    /\ Active(LegacyBefore)
    /\ LegacyBefore.project_name[1] \in LegacyRows(LegacyBefore)
    /\ LegacyTree(LegacyBefore, LegacyBefore.project_name[1])
    /\ projects_last.err = "OSError"

\* C34: when use_short_hash / use_full_hash fails, the data tree, the logs
\* tree and the row are exactly as before the call; a state with one of the
\* two trees renamed is never left behind.
C34_FailedMigrationChangesNothing ==
    (Migration /\ projects_last.err # "none")
        => /\ projects.fs = LegacyBefore.fs
           /\ projects.dataset = LegacyBefore.dataset
           /\ projects.project_name = LegacyBefore.project_name

\* use_full_hash has failed on a registered project whose tree exists: the
\* target is found to exist, and the tree is where it was.
C34_Witness ==
    /\ projects_last.op = "use_full_hash"
    /\ projects_last.err # "none"
    /\ Active(LegacyBefore)
    /\ LegacyBefore.project_name[1] \in LegacyRows(projects)
    /\ LegacyTree(LegacyBefore, LegacyBefore.project_name[1])
    /\ LegacyTree(projects, projects.project_name[1])

----------------------------------------------------------------------------
(* Orphan trees *)

\* The directories directly below the base data directory that no row of
\* the table has as its data directory.
Orphans(reg, f) ==
    { q \in f : /\ Len(q) = 2
                /\ q[1] = dir_base_data[1]
                /\ q[2] # database_name
                /\ \A row \in Range(reg) : DataDir(row.name) # q }

LegacyOrphans(p) ==
    { q \in Subdirectories(p.fs) : \A n \in LegacyRows(p) : LegacyDataDir(n) # q }

\* The directories that make up the data tree of project n.
OwnTree(n) == {DataDir(n)} \cup { Join(DataDir(n), DIRS_BASIC[i]) : i \in DOMAIN DIRS_BASIC }

\* ProjectsManager: an orphan tree that was there before a call is there
\* after it, unless the call is delete_project(n, delete_dir=True) and the
\* directory belongs to the data tree of n.
C35_CoreKeepsOrphans ==
    \A q \in Orphans(Before.registry, Before.fs) :
        last.op # "none" =>
            \/ q \in fs
            \/ Ended("delete_project") /\ last.flag2 /\ q \in OwnTree(LastName)

\* ProjectManager: the same for set_current, create_project, copy_project,
\* delete_project and request_directory.
C35_LegacyKeepsOrphans ==
    \A q \in LegacyOrphans(LegacyBefore) :
        projects_last.op \in {"set_current", "create_project", "copy_project",
                              "delete_project", "request_directory"} =>
            \/ q \in projects.fs
            \/ /\ projects_last.op = "delete_project"
               /\ projects_last.flag
               /\ q = LegacyDataDir(Victim[1])

\* C35: no lifecycle operation (create_project, set_current /
\* activate_project, copy_project, delete_project, request_directory) runs
\* the orphan purge implicitly: an orphan tree present before the operation
\* is present after it, unless it is the tree of the project named in a
\* delete_project(delete_dir=True) call.
C35_NoImplicitPurge == C35_CoreKeepsOrphans /\ C35_LegacyKeepsOrphans

\* A delete_project with delete_dir=True has ended, and an orphan tree of
\* another name that was on disk before it is gone.
C35_Witness ==
    /\ Ended("delete_project")
    /\ last.flag2
    /\ \E q \in Orphans(Before.registry, Before.fs) : q \notin fs /\ q \notin OwnTree(LastName)

----------------------------------------------------------------------------
(* Callbacks *)

Kinds == [i \in DOMAIN last.callbacks |-> last.callbacks[i].kind]

\* Every callback of the call was given this name, the attributes and the
\* data directory of this row, and saw a table of this many rows.
CallbacksSaw(row, count) ==
    \A i \in DOMAIN last.callbacks :
        /\ last.callbacks[i].name = LastName
        /\ last.callbacks[i].attributes = row.attributes
        /\ last.callbacks[i].dir_data = row.dir_data
        /\ last.callbacks[i].count = count

\* C36: create_project(activate=True) invokes the activate callbacks before
\* the create callbacks, both after the row exists; delete callbacks are
\* invoked after the row has been removed, with the deleted project's
\* attributes and data directory; copy callbacks are invoked after the new
\* row exists and after any switch; a failing operation invokes none.
C36_CallbackOrder ==
    /\ last.err # "none" => last.callbacks = <<>>
    /\ Returned("create_project") =>
          /\ Kinds = IF last.flag2 THEN <<"activate", "create">> ELSE <<"create">>
          /\ HasRow(registry, LastName)
          /\ CallbacksSaw(RowNamed(registry, LastName), Len(registry))
    /\ (Returned("delete_project") /\ HasRow(Before.registry, LastName)) =>
          /\ Kinds = <<"delete">>
          /\ ~HasRow(registry, LastName)
          /\ CallbacksSaw(RowNamed(Before.registry, LastName), Len(Before.registry) - 1)
    /\ Returned("copy_project") =>
          /\ Kinds = IF last.flag2 THEN <<"activate", "copy">> ELSE <<"copy">>
          /\ HasRow(registry, LastName)
          /\ ~HasRow(Before.registry, LastName)
          /\ CallbacksSaw(RowNamed(registry, LastName), Len(Before.registry) + 1)
          /\ last.flag2 => active_project = Some(RowNamed(registry, LastName))

\* A create_project(activate=True) of a new project has returned after its
\* two callbacks.
C36_Witness ==
    /\ Returned("create_project")
    /\ last.flag2
    /\ ~HasRow(Before.registry, LastName)
    /\ Len(last.callbacks) = 2

----------------------------------------------------------------------------
(* Rows are not rewritten *)

\* C37: a row's dir_data is the base data directory joined with its name and
\* its dir_logs the base logs directory joined with its name, and no
\* ProjectsManager operation changes the name, dir_data, dir_logs or
\* attributes of a row that stays in the table.
C37_RowsAreImmutable ==
    /\ [](\A row \in Rows : /\ row.dir_data = DataDir(row.name)
                            /\ row.dir_logs = LogsDir(row.name))
    /\ [][\A row \in Range(registry) :
             HasRow(registry', row.name) => RowNamed(registry', row.name) = row]_vars

\* create_project(exist_ok=True) has returned an existing project whose
\* attributes differ from those passed, in a table of two rows or more.
C37_Witness ==
    /\ Returned("create_project")
    /\ last.flag1
    /\ HasRow(Before.registry, LastName)
    /\ RowNamed(registry, LastName).attributes # last.attributes
    /\ RowNamed(registry, LastName).dir_data = DataDir(LastName)
    /\ Len(registry) >= 2

----------------------------------------------------------------------------
(* The active pointer *)

\* One manager: its active pointer is none or names a row of its table.
C38_OneManager ==
    active_project # None => HasRow(registry, active_project[1].name)

\* The active pointer of a manager constructed on this root.
ActiveOf(root) == managers[root][1]

\* C38: in every state reachable through create_project, activate_project,
\* delete_project and copy_project calls, whether a call succeeds or fails
\* part-way, the active pointer of a manager is none or names a project that
\* has a row in the registry.
C38_ActiveIsRegistered ==
    /\ C38_OneManager
    /\ \A root \in Roots :
           (managers[root] # None /\ ActiveOf(root) # None)
               => ActiveOf(root)[1].name \in Seen

\* A delete_project of a manager's active project has raised after the row
\* was removed: the row is gone, the pointer still names it.
C38_Witness ==
    /\ two_last.op = "delete_project"
    /\ two_last.err = "FileNotFoundError"
    /\ two_last.name \in two_last.seen
    /\ two_last.name \notin Seen
    /\ ActiveOf(two_last.root) # None
    /\ ActiveOf(two_last.root)[1].name = two_last.name

----------------------------------------------------------------------------
(* What delete_project leaves on disk *)

\* The paths the deletion of project n must leave where they are: the two
\* base directories, the database file, and the data and logs directories
\* of every other registered project.
MustSurvive(reg, n) ==
    {dir_base_data, dir_base_logs, database_path}
        \cup { DataDir(row.name) : row \in { r \in Range(reg) : r.name # n } }
        \cup { LogsDir(row.name) : row \in { r \in Range(reg) : r.name # n } }

\* C39: delete_project(n, delete_dir=True) of a registered project removes
\* only the data and logs directories of n: the directories of every other
\* registered project, the base data and logs directories and the database
\* file that were on disk before the call are on disk after it, for every
\* name that can be registered.
C39_DeleteRemovesOwnOnly ==
    (Ended("delete_project") /\ last.flag2 /\ HasRow(Before.registry, LastName))
        => \A q \in MustSurvive(Before.registry, LastName) :
               q \in Before.fs => q \in fs

\* A delete with delete_dir=True of a registered project has ended beside
\* another registered project whose data directory was on disk, and the
\* base data directory, the database file and that directory are gone.
C39_Witness ==
    /\ Ended("delete_project")
    /\ last.flag2
    /\ HasRow(Before.registry, LastName)
    /\ \E row \in Range(Before.registry) :
          /\ row.name # LastName
          /\ DataDir(row.name) \in Before.fs
          /\ DataDir(row.name) \notin fs
    /\ database_path \in Before.fs
    /\ database_path \notin fs
    /\ dir_base_data \notin fs

----------------------------------------------------------------------------
(* What the purge leaves of the logs *)

\* C40: purge_deleted_directories never removes the base logs directory, nor
\* the logs directory of a registered project, whichever way the base
\* directories of the manager were chosen (a folder, BRIGHTWAY_DIR, the
\* platform directories).
C40_PurgeKeepsLogs ==
    projects_last.op = "purge_deleted_directories" =>
        /\ LegacyBefore.base_logs_dir \in LegacyBefore.fs
              => LegacyBefore.base_logs_dir \in projects.fs
        /\ \A n \in LegacyRows(LegacyBefore) :
               LegacyLogsDir(LegacyBefore, n) \in LegacyBefore.fs
                   => LegacyLogsDir(LegacyBefore, n) \in projects.fs

\* A purge has ended on a manager whose current project is registered and
\* had its logs directory, and the base logs directory and that logs
\* directory are gone.
C40_Witness ==
    /\ projects_last.op = "purge_deleted_directories"
    /\ projects_last.err = "none"
    /\ LegacyBefore.project_name # None
    /\ LegacyBefore.project_name[1] \in LegacyRows(LegacyBefore)
    /\ LegacyLogsDir(LegacyBefore, LegacyBefore.project_name[1]) \in LegacyBefore.fs
    /\ LegacyLogsDir(LegacyBefore, LegacyBefore.project_name[1]) \notin projects.fs
    /\ LegacyBefore.base_logs_dir \notin projects.fs

====
